---- MODULE Spec2Model ----
(***************************************************************************)
(* The context-scoped typed cache of golib (package ctxcache, the          *)
(* declaration-based version: Init, Declare, Set, Get, KeepAlive and the   *)
(* cancel function Cache.Clear).                                           *)
(*                                                                         *)
(* A Go context is a node of an immutable tree; ctx.Value walks from a     *)
(* node to the root.  A Cache is a struct {mutex, values, keepAlive,       *)
(* cleared}; values is a Go map from TypeKey[T] (a name and a type) to     *)
(* TypeValue[T] {IsSet, Value}, keepAlive is a Go map used as a set.       *)
(* Values of every type T are written as numbers, 0 being T's zero value.  *)
(*                                                                         *)
(* Spec      one request: the API called by a sequential program, every    *)
(*           handler one atomic step (lock, body, deferred unlock).        *)
(* SpecCtx   context trees: Init on any context, derived contexts,         *)
(*           several caches; the calls use one key.                        *)
(* SpecSet   goroutines racing Set on one key, one step per lock event.    *)
(* SpecClear goroutines racing the cancel function.                        *)
(***************************************************************************)
EXTENDS Integers, Sequences, FiniteSets, TLC

VARIABLES ctxs,    \* the contexts made so far: <<[parent, cache]>>, 1 is the root
          caches,  \* the Cache objects made so far
          pc,      \* per goroutine: "idle", "lock" (blocked in mutex.Lock), "crit", "done"
          call,    \* per goroutine: the call it is in, or made last
          ret,     \* per goroutine: what its last call returned
          stream,  \* the Stream: msgs, done (times closed), closed, curr
          reader,  \* the goroutine SimpleConnection.Stream starts: its position, the body left, its message
          consumer,\* the caller of Next: its position, what Next returned last, the texts it read
          panic,   \* the panic that ended the program, or "none"
          wrappedErr, \* errutil: the error built so far, or nil
          parsed,  \* jsonflow: the last ParseInt call, its arguments and what it returned
          freeCache, \* ctxcache without declarations: the Cache of the request
          freeRet  \* ctxcache without declarations: the last call and what it returned

cacheVars == <<ctxs, caches, pc, call, ret>>

streamVars == <<stream, reader, consumer, panic>>

pureVars == <<wrappedErr, parsed>>

freeVars == <<freeCache, freeRet>>

vars == <<ctxs, caches, pc, call, ret, stream, reader, consumer, panic, wrappedErr, parsed,
          freeCache, freeRet>>

\* ------------------------------------------------------------------ bounds
\* values of a type are 0 .. MaxVal, 0 being the zero value
MaxVal == 1
\* contexts a run makes, the root included
MaxCtx == 3
\* goroutines of the concurrent specifications
NumProcs == 2
\* the lines of a response body
MaxLines == 2
\* the wrappers around a base error
MaxWraps == 3
\* the characters of a number token
MaxDigits == 5

Names == {"x", "k"}
Types == {"int", "string"}
Vals == 0..MaxVal
Procs == 1..NumProcs

\* ------------------------------------------------------------------ data
\* a key that forgets its type parameter
TypeKeyNameOnly(T, key) == [Key |-> key, T |-> "any"]

\* TypeKey[T]{Key: key}: as a map key of type any, the name and the type
TypeKey(T, key) == [Key |-> key, T |-> T]

Key(T, key) == TypeKey(T, key)

Keys == {Key(T, n) : T \in Types, n \in Names}

\* fmt.Sprintf("%s(%T)", k.Key, zero)
\* a rendering without the type
StringNameOnly(k) == <<k.Key>>

\* the six sentinel errors
ErrKinds ==
  {"cache not initialized", "cache already cleared", "key not declared",
   "key type mismatch", "value not set", "value already set"}

String(k) == <<k.Key, "(", k.T, ")">>

Zero(T) == 0

\* a TypeValue that does not carry its type argument
TypeValueErased(T, isSet, value) == [T |-> "any", IsSet |-> isSet, Value |-> value]

TypeValue(T, isSet, value) == [T |-> T, IsSet |-> isSet, Value |-> value]

ErrCacheNotInitialized == "cache not initialized"
ErrCacheAlreadyCleared == "cache already cleared"
ErrKeyNotDeclared == "key not declared"
ErrKeyTypeMismatch == "key type mismatch"
ErrValueNotSet == "value not set"
ErrValueAlreadySet == "value already set"

nil == [key |-> <<>>, kind |-> "nil"]

\* fmt.Errorf("%s: %w", k, err)
Errorf(k, err) == [key |-> String(k), kind |-> err]

\* &Cache{values: make(map[any]any), keepAlive: make(map[any]struct{})}
NewCache == [mutex |-> 0, values |-> <<>>, keepAlive |-> {}, cleared |-> FALSE]

\* a Go map without the keys outside keep
Restrict(m, keep) == [k \in (DOMAIN m) \cap keep |-> m[k]]

\* m[k] = v
Store(m, k, v) == [x \in (DOMAIN m) \cup {k} |-> IF x = k THEN v ELSE m[x]]

\* ------------------------------------------------------------------ httputil: Message, Stream
\* Message{data, err}
Message(data, err) == [data |-> data, err |-> err]

EOF == "EOF"

\* what ctx.Err() gives once ctx.Done() is closed
CtxErrs == {"context canceled", "context deadline exceeded"}

\* a channel is the number of close calls made on it: made open, closed by the first
Closed(ch) == ch >= 1

\* NewStream(): two unbuffered channels, closed false, curr the zero Message
NewStream == [msgs |-> 0, done |-> 0, closed |-> FALSE, curr |-> Message("", "nil")]

\* the program without a Stream
NoStream ==
  /\ stream = NewStream
  /\ reader = [pc |-> "none"]
  /\ consumer = [pc |-> "none"]
  /\ panic = "none"

\* no error built, no token parsed
NoPure ==
  /\ wrappedErr = nil
  /\ parsed = [op |-> "none"]

\* a request without a Cache of the version without declarations
NoFreeCache == [bound |-> FALSE, values |-> <<>>, isNil |-> TRUE, cleared |-> FALSE]

NoFree ==
  /\ freeCache = NoFreeCache
  /\ freeRet = [op |-> "none"]

\* ------------------------------------------------------------------ contexts
RECURSIVE Value(_, _)
\* ctx.Value(&cacheKey): the nearest Cache on the way to the root, 0 for none
Value(cs, ctx) ==
  IF ctx = 0 THEN 0
  ELSE IF cs[ctx].cache # 0 THEN cs[ctx].cache
  ELSE Value(cs, cs[ctx].parent)

\* getCache: (cache, ok) with ok = (cache # 0)
\* a lookup that falls back on the first Cache made when the chain holds none
getCacheGlobal(ctx) ==
  IF Value(ctxs, ctx) # 0 THEN Value(ctxs, ctx)
  ELSE IF caches # <<>> THEN 1 ELSE 0

getCache(ctx) == Value(ctxs, ctx)

\* context.WithValue(parent, key, m): a new child node
WithValue(cs, parent, m) == Append(cs, [parent |-> parent, cache |-> m])

\* ------------------------------------------------------------------ the bodies run under the mutex
\* a Clear that drops every entry, the kept ones too (values = nil)
PurgeAll(cache) ==
  [cache EXCEPT !.cleared = TRUE, !.values = <<>>, !.keepAlive = {}]

\* Cache.Clear past its cleared check: cleared = true, the delete loop, clear(keepAlive)
Purge(cache) ==
  [cache EXCEPT !.cleared = TRUE,
                !.values = Restrict(cache.values, cache.keepAlive),
                !.keepAlive = {}]

\* a Clear without its cleared check
ClearNeverEarly(cache) == FALSE

\* if cache.cleared { return }
ClearReturnsEarly(cache) == cache.cleared

\* Cache.Clear between Lock and Unlock
Clear(cache) == IF ClearReturnsEarly(cache) THEN cache ELSE Purge(cache)

\* KeepAlive after getCache succeeded
\* a KeepAlive that marks a key only once its value is set
KeepAliveLockedIfSet(cache, k) ==
  IF cache.cleared THEN cache
  ELSE IF k \in DOMAIN cache.values /\ cache.values[k].IsSet
         THEN [cache EXCEPT !.keepAlive = cache.keepAlive \cup {k}]
  ELSE cache

\* a KeepAlive without the cleared check
KeepAliveLockedAlways(cache, k) == [cache EXCEPT !.keepAlive = cache.keepAlive \cup {k}]

KeepAliveLocked(cache, k) ==
  IF cache.cleared THEN cache
  ELSE [cache EXCEPT !.keepAlive = cache.keepAlive \cup {k}]

RECURSIVE DeclareLoopReset(_, _)
\* a Declare without the exists check: every key named is reset to unset
DeclareLoopReset(values, keys) ==
  IF keys = <<>> THEN values
  ELSE DeclareLoopReset(Store(values, Head(keys), TypeValue(Head(keys).T, FALSE, Zero(Head(keys).T))),
                        Tail(keys))

RECURSIVE DeclareLoop(_, _)
\* for _, k := range keys { if _, exists := values[k]; !exists { values[k] = TypeValue[T]{IsSet: false} } }
DeclareLoop(values, keys) ==
  IF keys = <<>> THEN values
  ELSE LET k == Head(keys)
           next == IF k \in DOMAIN values THEN values
                   ELSE Store(values, k, TypeValue(k.T, FALSE, Zero(k.T)))
       IN DeclareLoop(next, Tail(keys))

\* a Declare without the cleared check
DeclareLockedUnchecked(cache, keys) ==
  [cache EXCEPT !.values = DeclareLoop(cache.values, keys)]

\* Declare after getCache succeeded
DeclareLocked(cache, keys) ==
  IF cache.cleared THEN cache
  ELSE [cache EXCEPT !.values = DeclareLoop(cache.values, keys)]

\* a Get that still serves an entry kept past the cleanup
GetLockedKept(cache, k) ==
  IF cache.cleared /\ k \notin DOMAIN cache.values
    THEN [val |-> Zero(k.T), err |-> Errorf(k, ErrCacheAlreadyCleared)]
  ELSE IF k \notin DOMAIN cache.values
    THEN [val |-> Zero(k.T), err |-> Errorf(k, ErrKeyNotDeclared)]
  ELSE IF cache.values[k].T # k.T
    THEN [val |-> Zero(k.T), err |-> Errorf(k, ErrKeyTypeMismatch)]
  ELSE IF ~cache.values[k].IsSet
    THEN [val |-> Zero(k.T), err |-> Errorf(k, ErrValueNotSet)]
  ELSE [val |-> cache.values[k].Value, err |-> nil]

\* a Get without the IsSet check
GetLockedNoIsSet(cache, k) ==
  IF cache.cleared THEN [val |-> Zero(k.T), err |-> Errorf(k, ErrCacheAlreadyCleared)]
  ELSE IF k \notin DOMAIN cache.values
    THEN [val |-> Zero(k.T), err |-> Errorf(k, ErrKeyNotDeclared)]
  ELSE IF cache.values[k].T # k.T
    THEN [val |-> Zero(k.T), err |-> Errorf(k, ErrKeyTypeMismatch)]
  ELSE [val |-> cache.values[k].Value, err |-> nil]

\* Get after getCache succeeded: (value, error)
GetLocked(cache, k) ==
  IF cache.cleared THEN [val |-> Zero(k.T), err |-> Errorf(k, ErrCacheAlreadyCleared)]
  ELSE IF k \notin DOMAIN cache.values
    THEN [val |-> Zero(k.T), err |-> Errorf(k, ErrKeyNotDeclared)]
  ELSE IF cache.values[k].T # k.T
    THEN [val |-> Zero(k.T), err |-> Errorf(k, ErrKeyTypeMismatch)]
  ELSE IF ~cache.values[k].IsSet
    THEN [val |-> Zero(k.T), err |-> Errorf(k, ErrValueNotSet)]
  ELSE [val |-> cache.values[k].Value, err |-> nil]

\* cache.values[k] = TypeValue[T]{IsSet: true, Value: value}
\* a store that rebuilds the map around the one key
SetStoreAlone(cache, k, value) ==
  [cache EXCEPT !.values = Store(<<>>, k, TypeValue(k.T, TRUE, value))]

SetStore(cache, k, value) ==
  [cache EXCEPT !.values = Store(cache.values, k, TypeValue(k.T, TRUE, value))]

\* a Set without the IsSet check: the last write wins
\* a Set that stores before it finds the value already set
SetLockedStoreFirst(cache, k, value) ==
  IF cache.cleared THEN [cache |-> cache, err |-> Errorf(k, ErrCacheAlreadyCleared)]
  ELSE IF k \notin DOMAIN cache.values THEN [cache |-> cache, err |-> Errorf(k, ErrKeyNotDeclared)]
  ELSE IF cache.values[k].T # k.T THEN [cache |-> cache, err |-> Errorf(k, ErrKeyTypeMismatch)]
  ELSE IF cache.values[k].IsSet
         THEN [cache |-> SetStore(cache, k, value), err |-> Errorf(k, ErrValueAlreadySet)]
  ELSE [cache |-> SetStore(cache, k, value), err |-> nil]

SetLockedOverwrite(cache, k, value) ==
  IF cache.cleared THEN [cache |-> cache, err |-> Errorf(k, ErrCacheAlreadyCleared)]
  ELSE IF k \notin DOMAIN cache.values
    THEN [cache |-> cache, err |-> Errorf(k, ErrKeyNotDeclared)]
  ELSE IF cache.values[k].T # k.T
    THEN [cache |-> cache, err |-> Errorf(k, ErrKeyTypeMismatch)]
  ELSE [cache |-> SetStore(cache, k, value), err |-> nil]

\* a Set that needs no declaration: a missing entry is created
SetLockedUndeclared(cache, k, value) ==
  IF cache.cleared THEN [cache |-> cache, err |-> Errorf(k, ErrCacheAlreadyCleared)]
  ELSE IF k \in DOMAIN cache.values /\ cache.values[k].T # k.T
    THEN [cache |-> cache, err |-> Errorf(k, ErrKeyTypeMismatch)]
  ELSE IF k \in DOMAIN cache.values /\ cache.values[k].IsSet
    THEN [cache |-> cache, err |-> Errorf(k, ErrValueAlreadySet)]
  ELSE [cache |-> SetStore(cache, k, value), err |-> nil]

\* a Set that looks for the entry before it looks at cleared
SetLockedKeyFirst(cache, k, value) ==
  IF k \notin DOMAIN cache.values
    THEN [cache |-> cache, err |-> Errorf(k, ErrKeyNotDeclared)]
  ELSE IF cache.cleared THEN [cache |-> cache, err |-> Errorf(k, ErrCacheAlreadyCleared)]
  ELSE IF cache.values[k].T # k.T
    THEN [cache |-> cache, err |-> Errorf(k, ErrKeyTypeMismatch)]
  ELSE IF cache.values[k].IsSet
    THEN [cache |-> cache, err |-> Errorf(k, ErrValueAlreadySet)]
  ELSE [cache |-> SetStore(cache, k, value), err |-> nil]

\* Set after getCache succeeded: the cache afterwards and the error
SetLocked(cache, k, value) ==
  IF cache.cleared THEN [cache |-> cache, err |-> Errorf(k, ErrCacheAlreadyCleared)]
  ELSE IF k \notin DOMAIN cache.values
    THEN [cache |-> cache, err |-> Errorf(k, ErrKeyNotDeclared)]
  ELSE IF cache.values[k].T # k.T
    THEN [cache |-> cache, err |-> Errorf(k, ErrKeyTypeMismatch)]
  ELSE IF cache.values[k].IsSet
    THEN [cache |-> cache, err |-> Errorf(k, ErrValueAlreadySet)]
  ELSE [cache |-> SetStore(cache, k, value), err |-> nil]

\* ------------------------------------------------------------------ the API, a call as one step
\* an Init that binds a new Cache whatever the context carries
InitCtxAlways(ctx) ==
  [ctx |-> Len(ctxs) + 1, cancel |-> Len(caches) + 1,
   ctxs |-> WithValue(ctxs, ctx, Len(caches) + 1),
   caches |-> Append(caches, NewCache)]

\* an Init that makes a cleared Cache usable again
InitCtxRevive(ctx) ==
  IF getCache(ctx) # 0
    THEN [ctx |-> ctx, cancel |-> getCache(ctx), ctxs |-> ctxs,
          caches |-> [caches EXCEPT ![getCache(ctx)] = IF @.cleared THEN NewCache ELSE @]]
  ELSE [ctx |-> Len(ctxs) + 1, cancel |-> Len(caches) + 1,
        ctxs |-> WithValue(ctxs, ctx, Len(caches) + 1),
        caches |-> Append(caches, NewCache)]

\* an Init that binds the first Cache made, once there is one, instead of a new one
InitCtxShared(ctx) ==
  IF getCache(ctx) # 0
    THEN [ctx |-> ctx, cancel |-> getCache(ctx), ctxs |-> ctxs, caches |-> caches]
  ELSE IF caches # <<>>
    THEN [ctx |-> Len(ctxs) + 1, cancel |-> 1, ctxs |-> WithValue(ctxs, ctx, 1), caches |-> caches]
  ELSE [ctx |-> Len(ctxs) + 1, cancel |-> Len(caches) + 1,
        ctxs |-> WithValue(ctxs, ctx, Len(caches) + 1),
        caches |-> Append(caches, NewCache)]

\* Init: the context and the cancel function (the Cache whose Clear it is) returned,
\* and the contexts and caches afterwards
InitCtx(ctx) ==
  IF getCache(ctx) # 0
    THEN [ctx |-> ctx, cancel |-> getCache(ctx), ctxs |-> ctxs, caches |-> caches]
  ELSE [ctx |-> Len(ctxs) + 1, cancel |-> Len(caches) + 1,
        ctxs |-> WithValue(ctxs, ctx, Len(caches) + 1),
        caches |-> Append(caches, NewCache)]

\* Get: (value, error)
Get(ctx, k) ==
  IF getCache(ctx) = 0 THEN [val |-> Zero(k.T), err |-> Errorf(k, ErrCacheNotInitialized)]
  ELSE GetLocked(caches[getCache(ctx)], k)

\* Set: the caches afterwards and the error
Set(ctx, k, value) ==
  IF getCache(ctx) = 0 THEN [caches |-> caches, err |-> Errorf(k, ErrCacheNotInitialized)]
  ELSE LET c == getCache(ctx)
           r == SetLocked(caches[c], k, value)
       IN [caches |-> [caches EXCEPT ![c] = r.cache], err |-> r.err]

\* Declare: the caches afterwards
Declare(ctx, keys) ==
  IF getCache(ctx) = 0 THEN caches
  ELSE [caches EXCEPT ![getCache(ctx)] = DeclareLocked(@, keys)]

\* KeepAlive: the caches afterwards
KeepAlive(ctx, k) ==
  IF getCache(ctx) = 0 THEN caches
  ELSE [caches EXCEPT ![getCache(ctx)] = KeepAliveLocked(@, k)]

\* the cancel function Init returned for cache c: c.Clear
Cancel(c) == [caches EXCEPT ![c] = Clear(@)]

\* ------------------------------------------------------------------ inputs
Ctxs == 1..Len(ctxs)

Caches == 1..Len(caches)

\* the argument lists of Declare[T]: keys of one type
DeclareArgs ==
  UNION {UNION {[1..n -> {k \in Keys : k.T = T}] : n \in 0..Cardinality(Names)} : T \in Types}

\* ------------------------------------------------------------------ Spec: one request, sequential
NoCall == [op |-> "none"]

Init ==
  /\ ctxs = <<[parent |-> 0, cache |-> 0]>>
  /\ caches = <<>>
  /\ pc = [g \in Procs |-> "idle"]
  /\ call = [g \in Procs |-> NoCall]
  /\ ret = [g \in Procs |-> NoCall]
  /\ NoStream
  /\ NoPure
  /\ NoFree

\* Init(ctx)
DoInit(ctx) ==
  /\ Len(InitCtx(ctx).ctxs) <= MaxCtx
  /\ ctxs' = InitCtx(ctx).ctxs
  /\ caches' = InitCtx(ctx).caches
  /\ UNCHANGED <<pc, call, ret>>
  /\ UNCHANGED <<streamVars, pureVars, freeVars>>

\* the caller derives a child context (context.WithValue under a key of its own)
DoDerive(ctx) ==
  /\ Len(ctxs) < MaxCtx
  /\ ctxs' = WithValue(ctxs, ctx, 0)
  /\ UNCHANGED <<caches, pc, call, ret>>
  /\ UNCHANGED <<streamVars, pureVars, freeVars>>

DoDeclare(ctx, keys) ==
  /\ caches' = Declare(ctx, keys)
  /\ UNCHANGED <<ctxs, pc, call, ret>>
  /\ UNCHANGED <<streamVars, pureVars, freeVars>>

DoSet(ctx, k, value) ==
  /\ caches' = Set(ctx, k, value).caches
  /\ UNCHANGED <<ctxs, pc, call, ret>>
  /\ UNCHANGED <<streamVars, pureVars, freeVars>>

\* Get changes nothing; what it returns is Get(ctx, k)
DoGet(ctx, k) ==
  /\ Get(ctx, k).val \in Vals
  /\ UNCHANGED vars

DoKeepAlive(ctx, k) ==
  /\ caches' = KeepAlive(ctx, k)
  /\ UNCHANGED <<ctxs, pc, call, ret>>
  /\ UNCHANGED <<streamVars, pureVars, freeVars>>

\* the cancel function of cache c, from any Init that returned it
DoCancel(c) ==
  /\ caches' = Cancel(c)
  /\ UNCHANGED <<ctxs, pc, call, ret>>
  /\ UNCHANGED <<streamVars, pureVars, freeVars>>

\* one request binds one Cache: Init on a context without one is called once
Next ==
  \/ \E ctx \in Ctxs : (getCache(ctx) # 0 \/ caches = <<>>) /\ DoInit(ctx)
  \/ \E ctx \in Ctxs, keys \in DeclareArgs : DoDeclare(ctx, keys)
  \/ \E ctx \in Ctxs, k \in Keys, v \in Vals : DoSet(ctx, k, v)
  \/ \E ctx \in Ctxs, k \in Keys : DoGet(ctx, k)
  \/ \E ctx \in Ctxs, k \in Keys : DoKeepAlive(ctx, k)
  \/ \E c \in Caches : DoCancel(c)

Spec == Init /\ [][Next]_vars

\* ------------------------------------------------------------------ SpecCtx: context trees
\* the calls of SpecCtx use one key
CtxKeys == {Key("int", "x")}

CtxDeclareArgs == {keys \in DeclareArgs : \A i \in DOMAIN keys : keys[i] \in CtxKeys}

NextCtx ==
  \/ \E ctx \in Ctxs : DoInit(ctx)
  \/ \E ctx \in Ctxs : DoDerive(ctx)
  \/ \E ctx \in Ctxs, keys \in CtxDeclareArgs : DoDeclare(ctx, keys)
  \/ \E ctx \in Ctxs, k \in CtxKeys, v \in Vals : DoSet(ctx, k, v)
  \/ \E ctx \in Ctxs, k \in CtxKeys : DoGet(ctx, k)
  \/ \E ctx \in Ctxs, k \in CtxKeys : DoKeepAlive(ctx, k)
  \/ \E c \in Caches : DoCancel(c)

SpecCtx == Init /\ [][NextCtx]_vars

\* ------------------------------------------------------------------ goroutines, one step per lock event
\* a mutex that excludes nobody
CanLockAlways(cache) == TRUE

\* cache.mutex.Lock() returns once no goroutine holds the mutex
CanLock(cache) == cache.mutex = 0

\* cache.mutex.Lock()
Lock(g) ==
  /\ pc[g] = "lock"
  /\ CanLock(caches[call[g].cache])
  /\ caches' = [caches EXCEPT ![call[g].cache].mutex = g]
  /\ pc' = [pc EXCEPT ![g] = "crit"]
  /\ UNCHANGED <<ctxs, call, ret>>
  /\ UNCHANGED <<streamVars, pureVars, freeVars>>

\* an Unlock that leaves the mutex held
UnlockKept(cache) == cache

\* the deferred cache.mutex.Unlock()
Unlock(cache) == [cache EXCEPT !.mutex = 0]

\* Set up to mutex.Lock(): getCache, and the error return without a Cache
SetCall(g, ctx, k, value) ==
  /\ pc[g] = "idle"
  /\ call' = [call EXCEPT ![g] = [op |-> "Set", ctx |-> ctx, cache |-> getCache(ctx),
                                  key |-> k, value |-> value]]
  /\ IF getCache(ctx) = 0
       THEN /\ pc' = [pc EXCEPT ![g] = "done"]
            /\ ret' = [ret EXCEPT ![g] = [err |-> Errorf(k, ErrCacheNotInitialized)]]
       ELSE /\ pc' = [pc EXCEPT ![g] = "lock"]
            /\ UNCHANGED ret
  /\ UNCHANGED <<ctxs, caches>>
  /\ UNCHANGED <<streamVars, pureVars, freeVars>>

\* Set under the mutex, its checks: an error returns (and unlocks), else on to the store
SetCheck(g) ==
  /\ pc[g] = "crit" /\ call[g].op = "Set"
  /\ LET c == call[g].cache
         r == SetLocked(caches[c], call[g].key, call[g].value)
     IN IF r.err # nil
          THEN /\ caches' = [caches EXCEPT ![c] = Unlock(@)]
               /\ ret' = [ret EXCEPT ![g] = [err |-> r.err]]
               /\ pc' = [pc EXCEPT ![g] = "done"]
          ELSE /\ pc' = [pc EXCEPT ![g] = "store"]
               /\ UNCHANGED <<caches, ret>>
  /\ UNCHANGED <<ctxs, call>>
  /\ UNCHANGED <<streamVars, pureVars, freeVars>>

\* Set under the mutex, the store, return nil and the deferred Unlock
SetWrite(g) ==
  /\ pc[g] = "store" /\ call[g].op = "Set"
  /\ caches' = [caches EXCEPT ![call[g].cache] =
                  Unlock(SetStore(@, call[g].key, call[g].value))]
  /\ ret' = [ret EXCEPT ![g] = [err |-> nil]]
  /\ pc' = [pc EXCEPT ![g] = "done"]
  /\ UNCHANGED <<ctxs, call>>
  /\ UNCHANGED <<streamVars, pureVars, freeVars>>

\* the cancel function Init(ctx) returns, called: up to mutex.Lock()
CancelCall(g, ctx) ==
  /\ pc[g] \in {"idle", "done"}
  /\ getCache(ctx) # 0
  /\ call' = [call EXCEPT ![g] = [op |-> "cancel", ctx |-> ctx, cache |-> InitCtx(ctx).cancel]]
  /\ pc' = [pc EXCEPT ![g] = "lock"]
  /\ ret' = [ret EXCEPT ![g] = NoCall]
  /\ UNCHANGED <<ctxs, caches>>
  /\ UNCHANGED <<streamVars, pureVars, freeVars>>

\* Clear under the mutex, its cleared check
ClearCheck(g) ==
  /\ pc[g] = "crit" /\ call[g].op = "cancel"
  /\ IF ClearReturnsEarly(caches[call[g].cache])
       THEN /\ caches' = [caches EXCEPT ![call[g].cache] = Unlock(@)]
            /\ pc' = [pc EXCEPT ![g] = "done"]
       ELSE /\ pc' = [pc EXCEPT ![g] = "purge"]
            /\ UNCHANGED caches
  /\ UNCHANGED <<ctxs, call, ret>>
  /\ UNCHANGED <<streamVars, pureVars, freeVars>>

\* Clear under the mutex, the purge and the deferred Unlock
ClearPurge(g) ==
  /\ pc[g] = "purge" /\ call[g].op = "cancel"
  /\ caches' = [caches EXCEPT ![call[g].cache] = Unlock(Purge(@))]
  /\ pc' = [pc EXCEPT ![g] = "done"]
  /\ UNCHANGED <<ctxs, call, ret>>
  /\ UNCHANGED <<streamVars, pureVars, freeVars>>

\* Get up to mutex.Lock(): getCache, and the error return without a Cache
GetCall(g, ctx, k) ==
  /\ pc[g] = "done"
  /\ call' = [call EXCEPT ![g] = [op |-> "Get", ctx |-> ctx, cache |-> getCache(ctx), key |-> k]]
  /\ IF getCache(ctx) = 0
       THEN /\ pc' = [pc EXCEPT ![g] = "done"]
            /\ ret' = [ret EXCEPT ![g] = [val |-> Zero(k.T), err |-> Errorf(k, ErrCacheNotInitialized)]]
       ELSE /\ pc' = [pc EXCEPT ![g] = "lock"]
            /\ ret' = [ret EXCEPT ![g] = NoCall]
  /\ UNCHANGED <<ctxs, caches>>
  /\ UNCHANGED <<streamVars, pureVars, freeVars>>

\* Get under the mutex, its return and the deferred Unlock
GetReturn(g) ==
  /\ pc[g] = "crit" /\ call[g].op = "Get"
  /\ ret' = [ret EXCEPT ![g] = GetLocked(caches[call[g].cache], call[g].key)]
  /\ caches' = [caches EXCEPT ![call[g].cache] = Unlock(@)]
  /\ pc' = [pc EXCEPT ![g] = "done"]
  /\ UNCHANGED <<ctxs, call>>
  /\ UNCHANGED <<streamVars, pureVars, freeVars>>

Idle ==
  /\ pc = [g \in Procs |-> "idle"]
  /\ call = [g \in Procs |-> NoCall]
  /\ ret = [g \in Procs |-> NoCall]
  /\ NoStream
  /\ NoPure
  /\ NoFree

\* ------------------------------------------------------------------ SpecSet: Set raced on one key
\* after Init on the root and Declare of one key k, kept alive or not
InitSet ==
  /\ ctxs = <<[parent |-> 0, cache |-> 0], [parent |-> 1, cache |-> 1]>>
  /\ \E k \in Keys : \E keep \in SUBSET {k} :
       caches = <<[NewCache EXCEPT !.values = DeclareLoop(<<>>, <<k>>), !.keepAlive = keep]>>
  /\ Idle

\* every goroutine calls Set once, on the declared key
NextSet ==
  \E g \in Procs :
    \/ \E k \in DOMAIN caches[1].values, v \in Vals : SetCall(g, 2, k, v)
    \/ Lock(g)
    \/ SetCheck(g)
    \/ SetWrite(g)

SpecSet == InitSet /\ [][NextSet]_vars

\* ------------------------------------------------------------------ SpecKeys: Set and Get, a key per goroutine
\* the keys in the order the goroutines take them: neighbours differ in type only
KeySeq == <<Key("int", "x"), Key("string", "x"), Key("int", "k"), Key("string", "k")>>

\* goroutine g sets its own key, to a value of its own
KeyOf(g) == KeySeq[g]

ValueOf(g) == g % (MaxVal + 1)

\* the Set on k has returned
SetReturned(k) ==
  \E h \in Procs :
    /\ KeyOf(h) = k
    /\ \/ call[h].op = "Get"
       \/ call[h].op = "Set" /\ pc[h] = "done"

\* after Init on the root and Declare of one key per goroutine, the first kept alive or not
InitKeys ==
  /\ ctxs = <<[parent |-> 0, cache |-> 0], [parent |-> 1, cache |-> 1]>>
  /\ \E keep \in SUBSET {KeyOf(1)} :
       caches = <<[NewCache EXCEPT !.values = DeclareLoop(<<>>, [g \in Procs |-> KeyOf(g)]),
                                   !.keepAlive = keep]>>
  /\ Idle

\* every goroutine calls Set once, on its own key, then Get any number of times,
\* on any key whose Set has returned
NextKeys ==
  \E g \in Procs :
    \/ SetCall(g, 2, KeyOf(g), ValueOf(g))
    \/ \E k \in DOMAIN caches[1].values : SetReturned(k) /\ GetCall(g, 2, k)
    \/ Lock(g)
    \/ SetCheck(g)
    \/ SetWrite(g)
    \/ GetReturn(g)

SpecKeys == InitKeys /\ [][NextKeys]_vars

\* ------------------------------------------------------------------ SpecClear: the cancel function raced
\* the entries a Cache can hold under keys S
Entries(S) ==
  UNION {[D -> {TypeValue(T, b, v) : T \in Types, b \in BOOLEAN, v \in Vals}] : D \in SUBSET S}

\* the keys named "x"
ClearKeys == {k \in Keys : k.Key = "x"}

\* after Init on the root, a derived context, and any Declare, Set and KeepAlive
\* calls on the keys named "x"
InitClear ==
  /\ ctxs = <<[parent |-> 0, cache |-> 0], [parent |-> 1, cache |-> 1], [parent |-> 2, cache |-> 0]>>
  /\ \E m \in Entries(ClearKeys), keep \in SUBSET ClearKeys :
       /\ \A k \in DOMAIN m : m[k].T = k.T /\ (~m[k].IsSet => m[k].Value = Zero(k.T))
       /\ caches = <<[NewCache EXCEPT !.values = m, !.keepAlive = keep]>>
  /\ Idle

\* every goroutine calls the cancel function, any number of times, got from Init on
\* either context of the chain
NextClear ==
  \E g \in Procs :
    \/ \E ctx \in Ctxs : CancelCall(g, ctx)
    \/ Lock(g)
    \/ ClearCheck(g)
    \/ ClearPurge(g)

SpecClear == InitClear /\ [][NextClear]_vars

\* ------------------------------------------------------------------ SpecOps: every operation raced on one cache
\* Declare up to mutex.Lock(): getCache, and the return without a Cache
DeclareCall(g, ctx, keys) ==
  /\ pc[g] \in {"idle", "done"}
  /\ call' = [call EXCEPT ![g] = [op |-> "Declare", ctx |-> ctx, cache |-> getCache(ctx),
                                  keys |-> keys]]
  /\ pc' = [pc EXCEPT ![g] = IF getCache(ctx) = 0 THEN "done" ELSE "lock"]
  /\ ret' = [ret EXCEPT ![g] = NoCall]
  /\ UNCHANGED <<ctxs, caches>>
  /\ UNCHANGED <<streamVars, pureVars, freeVars>>

\* Declare under the mutex: the cleared check, the loop and the deferred Unlock
DeclareReturn(g) ==
  /\ pc[g] = "crit" /\ call[g].op = "Declare"
  /\ caches' = [caches EXCEPT ![call[g].cache] = Unlock(DeclareLocked(@, call[g].keys))]
  /\ pc' = [pc EXCEPT ![g] = "done"]
  /\ UNCHANGED <<ctxs, call, ret>>
  /\ UNCHANGED <<streamVars, pureVars, freeVars>>

\* KeepAlive up to mutex.Lock(): getCache, and the return without a Cache
KeepAliveCall(g, ctx, k) ==
  /\ pc[g] \in {"idle", "done"}
  /\ call' = [call EXCEPT ![g] = [op |-> "KeepAlive", ctx |-> ctx, cache |-> getCache(ctx),
                                  key |-> k]]
  /\ pc' = [pc EXCEPT ![g] = IF getCache(ctx) = 0 THEN "done" ELSE "lock"]
  /\ ret' = [ret EXCEPT ![g] = NoCall]
  /\ UNCHANGED <<ctxs, caches>>
  /\ UNCHANGED <<streamVars, pureVars, freeVars>>

\* KeepAlive under the mutex: the cleared check, the mark and the deferred Unlock
KeepAliveReturn(g) ==
  /\ pc[g] = "crit" /\ call[g].op = "KeepAlive"
  /\ caches' = [caches EXCEPT ![call[g].cache] = Unlock(KeepAliveLocked(@, call[g].key))]
  /\ pc' = [pc EXCEPT ![g] = "done"]
  /\ UNCHANGED <<ctxs, call, ret>>
  /\ UNCHANGED <<streamVars, pureVars, freeVars>>

\* the caller takes the result of a call that returned and goes on
Resume(g) ==
  /\ pc[g] = "done"
  /\ pc' = [pc EXCEPT ![g] = "idle"]
  /\ call' = [call EXCEPT ![g] = NoCall]
  /\ ret' = [ret EXCEPT ![g] = NoCall]
  /\ UNCHANGED <<ctxs, caches>>
  /\ UNCHANGED <<streamVars, pureVars, freeVars>>

\* the key the racing calls use
OpsKeys == {Key("int", "x")}

\* after Init on the root: the root, which carries no Cache, and the context Init returned
InitOps ==
  /\ ctxs = <<[parent |-> 0, cache |-> 0], [parent |-> 1, cache |-> 1]>>
  /\ caches = <<NewCache>>
  /\ Idle

\* the steps of goroutine g under the mutex, each ending in a return or in the next such step
Inside(g) ==
  \/ SetCheck(g)
  \/ SetWrite(g)
  \/ GetReturn(g)
  \/ DeclareReturn(g)
  \/ KeepAliveReturn(g)
  \/ ClearCheck(g)
  \/ ClearPurge(g)

\* every goroutine calls Declare, Set, Get, KeepAlive and the cancel function, in
\* any order and any number of times, on the context Init returned
NextOps ==
  \E g \in Procs :
    \/ \E k \in OpsKeys : DeclareCall(g, 2, <<k>>)
    \/ \E k \in OpsKeys : SetCall(g, 2, k, ValueOf(g))
    \/ \E k \in OpsKeys : GetCall(g, 2, k)
    \/ \E k \in OpsKeys : KeepAliveCall(g, 2, k)
    \/ CancelCall(g, 2)
    \/ Resume(g)
    \/ Lock(g)
    \/ Inside(g)

SpecOps == InitOps /\ [][NextOps]_vars

\* the scheduler runs every goroutine that can take a step, so one that holds the
\* mutex goes on to its return; sync.Mutex hands the mutex to a goroutine that has
\* waited long (starvation mode), so one that finds it free again and again gets it.
\* A caller is not bound to call.
FairOps ==
  \A g \in Procs : WF_vars(Inside(g)) /\ SF_vars(Lock(g))

SpecOpsFair == SpecOps /\ FairOps

\* ------------------------------------------------------------------ SpecStream: reader, consumer, closers
\* the lines a response body is made of
\* a line longer than the buffer of the scanner (bufio.MaxScanTokenSize)
LongLine == "a line of 64 KiB"

\* what scanner.Err() gives for such a line
ErrTooLong == "bufio.Scanner: token too long"

RawLines == {" ", "a", " b ", LongLine}

\* strings.TrimSpace on those lines
TrimSpace(text) ==
  CASE text = " " -> ""
    [] text = " b " -> "b"
    [] OTHER -> text

\* the bodies: up to MaxLines lines
Bodies == UNION {[1..n -> RawLines] : n \in 0..MaxLines}

Running == panic = "none"

\* a swap made whatever the value is
CompareAndSwapBlind(value, old, new) == [swapped |-> TRUE, value |-> new]

\* atomic.Bool.CompareAndSwap(old, new): whether it swapped, and the value afterwards
CompareAndSwap(value, old, new) ==
  IF value = old THEN [swapped |-> TRUE, value |-> new]
  ELSE [swapped |-> FALSE, value |-> value]

\* Close, its first statement: the CompareAndSwap, and the return of a call that lost it
CloseSwap(g) ==
  /\ Running
  /\ pc[g] \in {"idle", "done"}
  /\ LET cas == CompareAndSwap(stream.closed, FALSE, TRUE)
     IN /\ stream' = [stream EXCEPT !.closed = cas.value]
        /\ pc' = [pc EXCEPT ![g] = IF cas.swapped THEN "closeDone" ELSE "done"]
  /\ UNCHANGED <<ctxs, caches, call, ret, reader, consumer, panic>>
  /\ UNCHANGED <<pureVars, freeVars>>

\* close(s.done): a close of a closed channel panics
CloseDone(g) ==
  /\ Running
  /\ pc[g] = "closeDone"
  /\ stream' = [stream EXCEPT !.done = @ + 1]
  /\ panic' = IF Closed(stream.done) THEN "close of closed channel" ELSE panic
  /\ pc' = [pc EXCEPT ![g] = "closeMsgs"]
  /\ UNCHANGED <<ctxs, caches, call, ret, reader, consumer>>
  /\ UNCHANGED <<pureVars, freeVars>>

\* close(s.msgs), and the return
CloseMsgs(g) ==
  /\ Running
  /\ pc[g] = "closeMsgs"
  /\ stream' = [stream EXCEPT !.msgs = @ + 1]
  /\ panic' = IF Closed(stream.msgs) THEN "close of closed channel" ELSE panic
  /\ pc' = [pc EXCEPT ![g] = "done"]
  /\ UNCHANGED <<ctxs, caches, call, ret, reader, consumer>>
  /\ UNCHANGED <<pureVars, freeVars>>

\* a loop that sends the empty lines too
ReaderScanNoSkip ==
  /\ Running
  /\ reader.pc = "scan" /\ reader.body # <<>> /\ Head(reader.body) # LongLine
  /\ reader' = [reader EXCEPT !.body = Tail(@), !.pc = "load",
                               !.msg = Message(TrimSpace(Head(reader.body)), "nil")]
  /\ UNCHANGED <<cacheVars, stream, consumer, panic>>
  /\ UNCHANGED <<pureVars, freeVars>>

\* the reader's loop: scanner.Scan() gave a line; an empty one is skipped, another
\* becomes the message send is called with
ReaderScan ==
  /\ Running
  /\ reader.pc = "scan" /\ reader.body # <<>> /\ Head(reader.body) # LongLine
  /\ LET text == TrimSpace(Head(reader.body))
     IN reader' = IF text = ""
                    THEN [reader EXCEPT !.body = Tail(@)]
                    ELSE [reader EXCEPT !.body = Tail(@), !.msg = Message(text, "nil"), !.pc = "load"]
  /\ UNCHANGED <<cacheVars, stream, consumer, panic>>
  /\ UNCHANGED <<pureVars, freeVars>>

\* scanner.Scan() gave false: at the end of the body, at a line too long for the
\* buffer, or at a read error anywhere
ReaderEnd(err) ==
  /\ Running
  /\ reader.pc = "scan"
  /\ err = EOF => reader.body = <<>>
  /\ err = ErrTooLong => (reader.body # <<>> /\ Head(reader.body) = LongLine)
  /\ reader' = [reader EXCEPT !.msg = Message("", err), !.pc = "load", !.last = TRUE]
  /\ UNCHANGED <<cacheVars, stream, consumer, panic>>
  /\ UNCHANGED <<pureVars, freeVars>>

\* a reader that goes on with its loop whatever send returned
SentIgnored(ok) ==
  IF ~reader.last THEN [reader EXCEPT !.pc = "scan"]
  ELSE [reader EXCEPT !.pc = "exit"]

\* the reader after send returned: on to the next line after a line was taken,
\* else the return and the deferred resp.Body.Close()
Sent(ok) ==
  IF ok /\ ~reader.last THEN [reader EXCEPT !.pc = "scan"]
  ELSE [reader EXCEPT !.pc = "exit"]

\* send, its first statement: s.closed.Load()
SendLoad ==
  /\ Running
  /\ reader.pc = "load"
  /\ reader' = IF stream.closed THEN Sent(FALSE) ELSE [reader EXCEPT !.pc = "select"]
  /\ UNCHANGED <<cacheVars, stream, consumer, panic>>
  /\ UNCHANGED <<pureVars, freeVars>>

\* the reader is in the select of send: about to look at its cases, or blocked
InSelect == reader.pc \in {"select", "parked"}

\* send, the select: no case can proceed, the reader blocks on both channels
SendPark ==
  /\ Running
  /\ reader.pc = "select"
  /\ ~Closed(stream.done) /\ ~Closed(stream.msgs)
  /\ reader' = [reader EXCEPT !.pc = "parked"]
  /\ UNCHANGED <<cacheVars, stream, consumer, panic>>
  /\ UNCHANGED <<pureVars, freeVars>>

\* send, the select: case <-s.done
SendDone ==
  /\ Running
  /\ InSelect
  /\ Closed(stream.done)
  /\ reader' = Sent(FALSE)
  /\ UNCHANGED <<cacheVars, stream, consumer, panic>>
  /\ UNCHANGED <<pureVars, freeVars>>

\* send, the select: case s.msgs <- msg chosen with msgs closed, by a reader that
\* comes to the select then; a blocked reader was released by close(s.done), which
\* Close calls first, and proceeds with that case
SendClosed ==
  /\ Running
  /\ reader.pc = "select"
  /\ Closed(stream.msgs)
  /\ panic' = "send on closed channel"
  /\ UNCHANGED <<cacheVars, stream, reader, consumer>>
  /\ UNCHANGED <<pureVars, freeVars>>

\* Next, its first statement: s.closed.Load()
NextLoad ==
  /\ Running
  /\ consumer.pc = "idle"
  /\ consumer' = IF stream.closed THEN [consumer EXCEPT !.pc = "idle", !.ok = FALSE]
                 ELSE [consumer EXCEPT !.pc = "select", !.ok = FALSE]
  /\ UNCHANGED <<cacheVars, stream, reader, panic>>
  /\ UNCHANGED <<pureVars, freeVars>>

\* Next, the select: case <-ctx.Done(), the context done or the timeout over
NextCtxDone(err) ==
  /\ Running
  /\ consumer.pc = "select"
  /\ stream' = [stream EXCEPT !.curr = Message("", err)]
  /\ consumer' = [consumer EXCEPT !.pc = "idle", !.ok = FALSE]
  /\ UNCHANGED <<cacheVars, reader, panic>>
  /\ UNCHANGED <<pureVars, freeVars>>

\* Next, the select: the receive from msgs closed gives the zero Message and ok false
NextClosed ==
  /\ Running
  /\ consumer.pc = "select"
  /\ Closed(stream.msgs)
  /\ stream' = [stream EXCEPT !.curr = Message("", "nil")]
  /\ consumer' = [consumer EXCEPT !.pc = "idle", !.ok = FALSE]
  /\ UNCHANGED <<cacheVars, reader, panic>>
  /\ UNCHANGED <<pureVars, freeVars>>

\* a Next that takes every message without an error other than EOF for data
NextReceivedEOF(msg) ==
  IF msg.err # "nil" /\ msg.err # EOF THEN [curr |-> msg, ok |-> FALSE]
  ELSE [curr |-> Message(msg.data, "nil"), ok |-> TRUE]

\* a Next that leaves io.EOF in s.curr.err
NextReceivedKeepEOF(msg) ==
  IF msg.err # "nil" THEN [curr |-> msg, ok |-> FALSE] ELSE [curr |-> msg, ok |-> TRUE]

\* Next after the receive gave msg and ok true: s.curr and what Next returns
NextReceived(msg) ==
  IF msg.err # "nil"
    THEN [curr |-> IF msg.err = EOF THEN Message(msg.data, "nil") ELSE msg, ok |-> FALSE]
    ELSE [curr |-> msg, ok |-> TRUE]

\* the caller of Next, after a Next that returned true, reads Text(): s.curr.data
Observe(c, curr) == IF c.ok THEN [c EXCEPT !.texts = Append(@, curr.data)] ELSE c

\* msgs is unbuffered: the send of the reader and the receive of Next are one event;
\* then Next looks at the error of the message, and send returns true. A blocked
\* reader that close(s.done) released is no sender any more.
Receive ==
  /\ Running
  /\ InSelect /\ consumer.pc = "select"
  /\ ~(reader.pc = "parked" /\ Closed(stream.done))
  /\ ~Closed(stream.msgs)
  /\ stream' = [stream EXCEPT !.curr = NextReceived(reader.msg).curr]
  /\ consumer' = Observe([consumer EXCEPT !.pc = "idle", !.ok = NextReceived(reader.msg).ok],
                          NextReceived(reader.msg).curr)
  /\ reader' = Sent(TRUE)
  /\ UNCHANGED <<cacheVars, panic>>
  /\ UNCHANGED <<pureVars, freeVars>>

\* SimpleConnection.Stream returned a Stream over some body; nobody has called yet
InitStream ==
  /\ ctxs = <<[parent |-> 0, cache |-> 0]>>
  /\ caches = <<>>
  /\ pc = [g \in Procs |-> "idle"]
  /\ call = [g \in Procs |-> NoCall]
  /\ ret = [g \in Procs |-> NoCall]
  /\ stream = NewStream
  /\ \E body \in Bodies :
       reader = [pc |-> "scan", body |-> body, msg |-> Message("", "nil"), last |-> FALSE,
                 all |-> body]
  /\ consumer = [pc |-> "idle", ok |-> FALSE, texts |-> <<>>]
  /\ panic = "none"
  /\ NoPure
  /\ NoFree

\* the reader sends, one goroutine calls Next, any goroutine calls Close, any number of times
NextStream ==
  \/ \E g \in Procs : CloseSwap(g)
  \/ \E g \in Procs : CloseDone(g)
  \/ \E g \in Procs : CloseMsgs(g)
  \/ ReaderScan
  \/ \E err \in {EOF, ErrTooLong, "read error"} : ReaderEnd(err)
  \/ SendLoad
  \/ SendPark
  \/ SendDone
  \/ SendClosed
  \/ NextLoad
  \/ \E err \in CtxErrs : NextCtxDone(err)
  \/ NextClosed
  \/ Receive

SpecStream == InitStream /\ [][NextStream]_vars

\* the scheduler runs a goroutine that can proceed: a reader released from its
\* select returns, a Close past its swap closes the channels. Nobody is bound to
\* call Next or Close, and reading the body may take for ever.
FairStream ==
  /\ WF_vars(SendDone)
  /\ \A g \in Procs : WF_vars(CloseDone(g) \/ CloseMsgs(g))

SpecStreamFair == SpecStream /\ FairStream

\* ------------------------------------------------------------------ errutil: Explain, Stack
\* errors.New(text): an error with that message that wraps nothing
New(text) == [msg |-> <<text>>, err |-> nil]

\* err.Error(), the message as the sequence of its parts
Error(err) == err.msg

\* errors.Unwrap(err)
Unwrap(err) == err.err

\* fmt.Errorf("%s" + sep + "%w", msg, err): the message joined, the error wrapped
ErrorfWrap(msg, sep, err) == [msg |-> <<msg, sep>> \o Error(err), err |-> err]

RECURSIVE Is(_, _)
\* errors.Is(err, target): target is err or an error err wraps, at any depth
Is(err, target) == err # nil /\ (err = target \/ Is(Unwrap(err), target))

RECURSIVE ErrChain(_)
\* err and the errors it wraps
ErrChain(err) == IF err = nil THEN {} ELSE {err} \cup ErrChain(Unwrap(err))

\* an Explain that formats err into the message with %v and wraps nothing
ExplainFlat(err, msg) ==
  IF err = nil THEN New(msg)
  ELSE [msg |-> <<msg, ": ">> \o Error(err), err |-> nil]

\* Explain(err, format, args...), msg being the format applied to the args
Explain(err, msg) ==
  IF err = nil THEN New(msg)
  ELSE ErrorfWrap(msg, ": ", err)

\* Stack(err, format, args...)
Stack(err, msg) ==
  IF err = nil THEN New(msg)
  ELSE ErrorfWrap(msg, " >> ", err)

\* the messages of the callers and of the base errors
Msgs == {"level 1", "level 2"}

BaseMsgs == {"base error", "original error"}

\* a caller has an error from errors.New, or none
InitErr ==
  /\ ctxs = <<[parent |-> 0, cache |-> 0]>>
  /\ caches = <<>>
  /\ pc = [g \in Procs |-> "idle"]
  /\ call = [g \in Procs |-> NoCall]
  /\ ret = [g \in Procs |-> NoCall]
  /\ NoStream
  /\ NoFree
  /\ wrappedErr \in {nil} \cup {New(text) : text \in BaseMsgs}
  /\ parsed = NoCall

DoExplain(msg) ==
  /\ Cardinality(ErrChain(wrappedErr)) <= MaxWraps
  /\ wrappedErr' = Explain(wrappedErr, msg)
  /\ UNCHANGED <<cacheVars, streamVars, parsed, freeVars>>

DoStack(msg) ==
  /\ Cardinality(ErrChain(wrappedErr)) <= MaxWraps
  /\ wrappedErr' = Stack(wrappedErr, msg)
  /\ UNCHANGED <<cacheVars, streamVars, parsed, freeVars>>

\* each caller up the stack wraps what it got
NextErr ==
  \/ \E msg \in Msgs : DoExplain(msg)
  \/ \E msg \in Msgs : DoStack(msg)

SpecErr == InitErr /\ [][NextErr]_vars

\* ------------------------------------------------------------------ jsonflow: OverflowInt, ParseInt
\* the integer types ParseInt is instantiated with: two predeclared ones, and a
\* defined type (type Small int8), which the constraint ~int8 admits
IntTypes ==
  {[name |-> "int8", underlying |-> "int8"],
   [name |-> "int16", underlying |-> "int16"],
   [name |-> "Small", underlying |-> "int8"]}

\* the bits of a type, those of its underlying type
Bits(T) == IF T.underlying = "int8" THEN 8 ELSE 16

RECURSIVE Pow2(_)
Pow2(n) == IF n = 0 THEN 1 ELSE 2 * Pow2(n - 1)

\* math.MinInt8 .. math.MaxInt8, math.MinInt16 .. math.MaxInt16
MinInt(bits) == 0 - Pow2(bits - 1)

MaxInt(bits) == Pow2(bits - 1) - 1

\* T(v): the conversion keeps the low bits, as a two's complement number
Convert(T, v) == ((v + Pow2(Bits(T) - 1)) % Pow2(Bits(T))) - Pow2(Bits(T) - 1)

\* the characters of the tokens
DigitChars == {"1", "2", "3", "6", "7", "8"}

Chars == DigitChars \cup {"-"}

Tokens == UNION {[1..n -> Chars] : n \in 1..MaxDigits}

DigitVal(c) ==
  CASE c = "1" -> 1 [] c = "2" -> 2 [] c = "3" -> 3
    [] c = "6" -> 6 [] c = "7" -> 7 [] c = "8" -> 8

RECURSIVE Atoi(_)
\* the number a sequence of digits writes, base 10
Atoi(digits) ==
  IF digits = <<>> THEN 0
  ELSE 10 * Atoi(SubSeq(digits, 1, Len(digits) - 1)) + DigitVal(digits[Len(digits)])

\* strconv.ParseInt(token, 10, 64): an optional sign, then digits and nothing else;
\* no token here is long enough to leave int64
StrconvParseInt(token) ==
  LET neg == token[1] = "-"
      digits == IF neg THEN Tail(token) ELSE token
  IN IF digits = <<>> \/ \E i \in DOMAIN digits : digits[i] \notin DigitChars
       THEN [v |-> 0, err |-> New("strconv.ParseInt: invalid syntax")]
       ELSE [v |-> IF neg THEN 0 - Atoi(digits) ELSE Atoi(digits), err |-> nil]

\* OverflowInt[T](v): the type switch on any(z) finds the case of T itself, a
\* predeclared type, and none for a defined type
OverflowInt(T, v) ==
  CASE T.name = "int8" -> v > MaxInt(8) \/ v < MinInt(8)
    [] T.name = "int16" -> v > MaxInt(16) \/ v < MinInt(16)
    [] OTHER -> FALSE

\* the formats, without their back quotes
errFormatNumber == "invalid JSON: expected number but got %s"

errOutOfRange == "invalid JSON: number out of range, got %s"

\* ParseInt[T](token, k)
ParseInt(T, token, k) ==
  IF k # "0" THEN [val |-> 0, err |-> Explain(nil, errFormatNumber)]
  ELSE LET r == StrconvParseInt(token)
       IN IF r.err # nil THEN [val |-> 0, err |-> r.err]
          ELSE IF OverflowInt(T, r.v) THEN [val |-> 0, err |-> Explain(nil, errOutOfRange)]
          ELSE [val |-> Convert(T, r.v), err |-> nil]

\* a caller about to parse a token of the decoder: of the kind of numbers, or a
\* short one of another kind
InitParse ==
  /\ ctxs = <<[parent |-> 0, cache |-> 0]>>
  /\ caches = <<>>
  /\ pc = [g \in Procs |-> "idle"]
  /\ call = [g \in Procs |-> NoCall]
  /\ ret = [g \in Procs |-> NoCall]
  /\ NoStream
  /\ NoFree
  /\ wrappedErr = nil
  /\ \E T \in IntTypes, token \in Tokens, k \in {"0", "t"} :
       /\ k = "t" => Len(token) = 1
       /\ parsed = [op |-> "call", T |-> T, token |-> token, k |-> k]

DoParseInt ==
  /\ parsed.op = "call"
  /\ parsed' = [op |-> "ParseInt", T |-> parsed.T, token |-> parsed.token, k |-> parsed.k,
                val |-> ParseInt(parsed.T, parsed.token, parsed.k).val,
                err |-> ParseInt(parsed.T, parsed.token, parsed.k).err]
  /\ UNCHANGED <<cacheVars, streamVars, wrappedErr, freeVars>>

NextParse == DoParseInt

SpecParse == InitParse /\ [][NextParse]_vars

\* ------------------------------------------------------------------ jsonflow: Decoder, DecodeValue, DecodeArray
\* the longest input, in tokens
MaxTokens == 4

\* json.InvalidKind, the Kind 0; the other kinds are the first byte of the
\* token: "n", "0", "[", "]", "{", "}"
InvalidKind == "invalid"

\* the tokens of an input; a number is its digits
TokNull == [kind |-> "n", text |-> <<"n">>]

TokNumber(digits) == [kind |-> "0", text |-> digits]

TokArrayBegin == [kind |-> "[", text |-> <<"[">>]

TokArrayEnd == [kind |-> "]", text |-> <<"]">>]

TokObjectBegin == [kind |-> "{", text |-> <<"{">>]

TokObjectEnd == [kind |-> "}", text |-> <<"}">>]

\* 128 is a number no int8 holds
JSONTokens ==
  {TokNull, TokNumber(<<"1">>), TokNumber(<<"2">>), TokNumber(<<"1", "2", "8">>),
   TokArrayBegin, TokArrayEnd, TokObjectBegin}

\* the inputs: the tokens the decoder yields before the input ends
TokenStreams == UNION {[1..n -> JSONTokens] : n \in 0..MaxTokens}

\* a decoder over an input, before its first token
NewDecoder(toks) == [toks |-> toks, pos |-> 1]

\* the error of a read at the end of the input
ErrUnexpectedEOF == New("unexpected EOF")

\* d.PeekKind(): the kind of the next token, or InvalidKind when there is none
PeekKind(d) == IF d.pos > Len(d.toks) THEN InvalidKind ELSE d.toks[d.pos].kind

\* d.ReadToken(): the next token, and the decoder past it, or "", 0, err
ReadToken(d) ==
  IF d.pos > Len(d.toks)
    THEN [token |-> <<>>, kind |-> InvalidKind, err |-> ErrUnexpectedEOF, d |-> d]
    ELSE [token |-> d.toks[d.pos].text, kind |-> d.toks[d.pos].kind, err |-> nil,
          d |-> [d EXCEPT !.pos = @ + 1]]

\* the kinds DecodeValue hands to parseFn; "s" is the kind of strings
ScalarKinds == {"f", "t", "0", "s"}

\* DecodeValue(ParseInt[T], errFormatNumber)(d)
DecodeValue(T, d) ==
  LET r == ReadToken(d)
  IN IF r.err # nil THEN [val |-> 0, err |-> r.err, d |-> r.d]
     ELSE IF r.kind = "n" THEN [val |-> 0, err |-> Explain(nil, errFormatNumber), d |-> r.d]
     ELSE IF r.kind \in ScalarKinds
       THEN [val |-> ParseInt(T, r.token, r.kind).val,
             err |-> ParseInt(T, r.token, r.kind).err, d |-> r.d]
     ELSE [val |-> 0, err |-> Explain(nil, errFormatNumber), d |-> r.d]

\* a *T: nil, or the address of a value
NilPtr == [isNil |-> TRUE, v |-> 0]

AddrOf(v) == [isNil |-> FALSE, v |-> v]

\* DecodeValuePtr(ParseInt[T], errFormatNumber)(d)
DecodeValuePtr(T, d) ==
  LET r == ReadToken(d)
  IN IF r.err # nil THEN [val |-> NilPtr, err |-> r.err, d |-> r.d]
     ELSE IF r.kind = "n" THEN [val |-> NilPtr, err |-> nil, d |-> r.d]
     ELSE IF r.kind \in ScalarKinds
       THEN LET p == ParseInt(T, r.token, r.kind)
            IN IF p.err # nil THEN [val |-> NilPtr, err |-> p.err, d |-> r.d]
               ELSE [val |-> AddrOf(p.val), err |-> nil, d |-> r.d]
     ELSE [val |-> NilPtr, err |-> Explain(nil, errFormatNumber), d |-> r.d]

Int8 == [name |-> "int8", underlying |-> "int8"]

\* DecodeInt[int8](d)
DecodeInt(d) == DecodeValue(Int8, d)

\* a []T: the nil slice, or a slice with its elements
NilSlice == [isNil |-> TRUE, elems |-> <<>>]

\* make([]T, 0)
MakeSlice == [isNil |-> FALSE, elems |-> <<>>]

errExpectedArray == "invalid JSON: expected [ but got %s"

\* the element parsers: DecodeInt[int8], and DecodeArray(DecodeInt[int8])
ElemParsers == {"int", "array"}

RECURSIVE DecodeArray(_, _), DecodeArrayLoop(_, _, _), ParseElem(_, _)

\* a loop that leaves the closing token unread
DecodeArrayLoopNoClose(parseFn, d, v) ==
  IF PeekKind(d) = "]" THEN [val |-> v, err |-> nil, d |-> d]
  ELSE LET i == ParseElem(parseFn, d)
       IN IF i.err # nil THEN [val |-> NilSlice, err |-> i.err, d |-> i.d]
          ELSE DecodeArrayLoop(parseFn, i.d, [v EXCEPT !.elems = Append(@, i.val)])

\* parseFn(d)
ParseElem(parseFn, d) == IF parseFn = "int" THEN DecodeInt(d) ELSE DecodeArray("int", d)

\* the for loop of DecodeArray and the read of the closing token after it
DecodeArrayLoop(parseFn, d, v) ==
  IF PeekKind(d) = "]" THEN [val |-> v, err |-> nil, d |-> ReadToken(d).d]
  ELSE LET i == ParseElem(parseFn, d)
       IN IF i.err # nil THEN [val |-> NilSlice, err |-> i.err, d |-> i.d]
          ELSE DecodeArrayLoop(parseFn, i.d, [v EXCEPT !.elems = Append(@, i.val)])

\* DecodeArray(parseFn)(d)
DecodeArray(parseFn, d) ==
  CASE PeekKind(d) = "n" -> [val |-> NilSlice, err |-> nil, d |-> ReadToken(d).d]
    [] PeekKind(d) = "[" -> DecodeArrayLoop(parseFn, ReadToken(d).d, MakeSlice)
    [] OTHER ->
         LET r == ReadToken(d)
         IN IF r.err # nil THEN [val |-> NilSlice, err |-> r.err, d |-> r.d]
            ELSE [val |-> NilSlice, err |-> Explain(nil, errExpectedArray), d |-> r.d]

\* a caller with a decoder over an input, about to decode a value of it
InitDecode ==
  /\ ctxs = <<[parent |-> 0, cache |-> 0]>>
  /\ caches = <<>>
  /\ pc = [g \in Procs |-> "idle"]
  /\ call = [g \in Procs |-> NoCall]
  /\ ret = [g \in Procs |-> NoCall]
  /\ NoStream
  /\ NoFree
  /\ wrappedErr = nil
  /\ \E toks \in TokenStreams, parseFn \in ElemParsers :
       parsed = [op |-> "call", parseFn |-> parseFn, d |-> NewDecoder(toks)]

Decoded(op, r) ==
  [op |-> op, parseFn |-> parsed.parseFn, d |-> parsed.d,
   val |-> r.val, err |-> r.err, after |-> r.d]

DoDecodeArray ==
  /\ parsed.op = "call"
  /\ parsed' = Decoded("DecodeArray", DecodeArray(parsed.parseFn, parsed.d))
  /\ UNCHANGED <<cacheVars, streamVars, wrappedErr, freeVars>>

DoDecodeValue ==
  /\ parsed.op = "call"
  /\ parsed' = Decoded("DecodeValue", DecodeValue(Int8, parsed.d))
  /\ UNCHANGED <<cacheVars, streamVars, wrappedErr, freeVars>>

DoDecodeValuePtr ==
  /\ parsed.op = "call"
  /\ parsed' = Decoded("DecodeValuePtr", DecodeValuePtr(Int8, parsed.d))
  /\ UNCHANGED <<cacheVars, streamVars, wrappedErr, freeVars>>

NextDecode ==
  \/ DoDecodeArray
  \/ DoDecodeValue
  \/ DoDecodeValuePtr

SpecDecode == InitDecode /\ [][NextDecode]_vars

\* ------------------------------------------------------------------ jsonflow: the loops of DecodeArray and DecodeMap
\* the decoders with a loop, and the tokens that open and close their values
LoopFns == {"DecodeArray", "DecodeMap"}

OpenKind(fn) == IF fn = "DecodeArray" THEN "[" ELSE "{"

CloseKind(fn) == IF fn = "DecodeArray" THEN "]" ELSE "}"

\* the tokens of the inputs of a decoder: null, a scalar, its own brackets
LoopTokens(fn) ==
  IF fn = "DecodeArray" THEN {TokNull, TokNumber(<<"1">>), TokArrayBegin, TokArrayEnd}
  ELSE {TokNull, TokNumber(<<"1">>), TokObjectBegin, TokObjectEnd}

LoopStreams(fn) == UNION {[1..n -> LoopTokens(fn)] : n \in 0..MaxTokens}

errInvalidJSON == "invalid JSON"

errExpectedObject == "invalid JSON: expected { but got %s"

\* the error of a decoder for a token that does not open its value
errExpected(fn) == IF fn = "DecodeArray" THEN errExpectedArray ELSE errExpectedObject

\* the tokens left in the input
Remaining(d) == Len(d.toks) - (d.pos - 1)

\* what a parseFn(d) can do: take one token or more and succeed, or fail; at
\* the end of the input its read fails
ParseFnOutcomes(d) ==
  IF Remaining(d) = 0 THEN {[err |-> ErrUnexpectedEOF, d |-> d]}
  ELSE {[err |-> nil, d |-> [d EXCEPT !.pos = @ + n]] : n \in 1..Remaining(d)}
       \cup {[err |-> New(errInvalidJSON), d |-> [d EXCEPT !.pos = @ + n]] : n \in 0..1}

\* a caller about to decode an array or a map from an input
InitLoop ==
  /\ ctxs = <<[parent |-> 0, cache |-> 0]>>
  /\ caches = <<>>
  /\ pc = [g \in Procs |-> "idle"]
  /\ call = [g \in Procs |-> NoCall]
  /\ ret = [g \in Procs |-> NoCall]
  /\ NoStream
  /\ NoFree
  /\ wrappedErr = nil
  /\ \E fn \in LoopFns : \E toks \in LoopStreams(fn) :
       parsed = [op |-> "loop", fn |-> fn, d |-> NewDecoder(toks), pc |-> "switch", err |-> nil]

\* return ..., err
LoopReturn(d, err) == parsed' = [parsed EXCEPT !.d = d, !.pc = "return", !.err = err]

\* a loop that goes on after a parseFn that failed
LoopParsedIgnored(r) == parsed' = [parsed EXCEPT !.d = r.d]

\* the loop after parseFn returned: the error ends it, a value is kept
LoopParsed(r) ==
  IF r.err # nil THEN LoopReturn(r.d, r.err)
  ELSE parsed' = [parsed EXCEPT !.d = r.d]

\* switch d.PeekKind(): null, the opening token, or anything else
LoopSwitch ==
  /\ parsed.op = "loop"
  /\ parsed.pc = "switch"
  /\ CASE PeekKind(parsed.d) = "n" -> LoopReturn(ReadToken(parsed.d).d, nil)
       [] PeekKind(parsed.d) = OpenKind(parsed.fn) ->
            parsed' = [parsed EXCEPT !.d = ReadToken(parsed.d).d, !.pc = "for"]
       [] OTHER ->
            LET r == ReadToken(parsed.d)
            IN IF r.err # nil THEN LoopReturn(r.d, r.err)
               ELSE LoopReturn(r.d, Explain(nil, errExpected(parsed.fn)))
  /\ UNCHANGED <<cacheVars, streamVars, wrappedErr, freeVars>>

\* the closing token is next: break, read it, return the value
LoopBreak ==
  /\ parsed.op = "loop"
  /\ parsed.pc = "for"
  /\ PeekKind(parsed.d) = CloseKind(parsed.fn)
  /\ LoopReturn(ReadToken(parsed.d).d, nil)
  /\ UNCHANGED <<cacheVars, streamVars, wrappedErr, freeVars>>

\* one turn of the loop of DecodeArray: parseFn, append
ArrayElem ==
  /\ parsed.op = "loop"
  /\ parsed.fn = "DecodeArray"
  /\ parsed.pc = "for"
  /\ PeekKind(parsed.d) # CloseKind(parsed.fn)
  /\ \E i \in ParseFnOutcomes(parsed.d) : LoopParsed(i)
  /\ UNCHANGED <<cacheVars, streamVars, wrappedErr, freeVars>>

\* one turn of the loop of DecodeMap: parseKeyFn, parseValFn, m[key] = val
MapEntry ==
  /\ parsed.op = "loop"
  /\ parsed.fn = "DecodeMap"
  /\ parsed.pc = "for"
  /\ PeekKind(parsed.d) # CloseKind(parsed.fn)
  /\ \E key \in ParseFnOutcomes(parsed.d) :
       IF key.err # nil THEN LoopParsed(key)
       ELSE \E val \in ParseFnOutcomes(key.d) : LoopParsed(val)
  /\ UNCHANGED <<cacheVars, streamVars, wrappedErr, freeVars>>

NextLoop ==
  \/ LoopSwitch
  \/ LoopBreak
  \/ ArrayElem
  \/ MapEntry

SpecLoop == InitLoop /\ [][NextLoop]_vars

\* the goroutine that called the decoder runs on
FairLoop == WF_vars(NextLoop)

SpecLoopFair == SpecLoop /\ FairLoop

\* ------------------------------------------------------------------ ctxcache without declarations
\* the version of the package whose Get and Set take a string key
ErrKeyNotSet == "key not set"
ErrKeyAlreadySet == "key already set"

\* a write to a nil map panics
PanicNilMap == "assignment to entry in nil map"

\* TypedKey[T]{Key: key}: as a map key of type any, the name and the type
TypedKey(T, key) == [Key |-> key, T |-> T]

\* &Cache{values: make(map[any]any)}, bound to the context
FreeNewCache == [bound |-> TRUE, values |-> <<>>, isNil |-> FALSE, cleared |-> FALSE]

\* Init: a context with a Cache keeps it
FreeInit(cache) == IF cache.bound THEN cache ELSE FreeNewCache

\* Cache.Clear: values = nil, cleared = true, once
FreeClear(cache) ==
  IF cache.cleared THEN cache
  ELSE [cache EXCEPT !.values = <<>>, !.isNil = TRUE, !.cleared = TRUE]

\* Get[T](ctx, key): (value, error)
FreeGet(cache, T, key) ==
  LET k == TypedKey(T, key)
  IN IF ~cache.bound THEN [val |-> Zero(T), err |-> Errorf(k, ErrCacheNotInitialized)]
     ELSE IF cache.cleared THEN [val |-> Zero(T), err |-> Errorf(k, ErrCacheAlreadyCleared)]
     ELSE IF k \notin DOMAIN cache.values THEN [val |-> Zero(T), err |-> Errorf(k, ErrKeyNotSet)]
     ELSE [val |-> cache.values[k], err |-> nil]

\* cache.values[k] = value
FreeStore(cache, k, value) ==
  IF cache.isNil THEN [cache |-> cache, err |-> Errorf(k, PanicNilMap)]
  ELSE [cache |-> [cache EXCEPT !.values = Store(cache.values, k, value)], err |-> nil]

\* a Set without the cleared check
FreeSetUnchecked(cache, T, key, value) ==
  LET k == TypedKey(T, key)
  IN IF ~cache.bound THEN [cache |-> cache, err |-> Errorf(k, ErrCacheNotInitialized)]
     ELSE IF k \in DOMAIN cache.values THEN [cache |-> cache, err |-> Errorf(k, ErrKeyAlreadySet)]
     ELSE FreeStore(cache, k, value)

\* Set[T](ctx, key, value): the Cache afterwards and the error; a panic is an
\* outcome of its own
FreeSet(cache, T, key, value) ==
  LET k == TypedKey(T, key)
  IN IF ~cache.bound THEN [cache |-> cache, err |-> Errorf(k, ErrCacheNotInitialized)]
     ELSE IF cache.cleared THEN [cache |-> cache, err |-> Errorf(k, ErrCacheAlreadyCleared)]
     ELSE IF k \in DOMAIN cache.values THEN [cache |-> cache, err |-> Errorf(k, ErrKeyAlreadySet)]
     ELSE FreeStore(cache, k, value)

\* ------------------------------------------------------------------ SpecVariants: one run of calls on both versions
\* the context of the request: the one Init returned, the root before
ReqCtx == Len(ctxs)

\* Declare(ctx, k) followed by Set(ctx, k, value)
DeclareThenSet(ctx, k, value) ==
  IF getCache(ctx) = 0 THEN [caches |-> caches, err |-> Errorf(k, ErrCacheNotInitialized)]
  ELSE LET c == getCache(ctx)
           r == SetLocked(DeclareLocked(caches[c], <<k>>), k, value)
       IN [caches |-> [caches EXCEPT ![c] = r.cache], err |-> r.err]

\* a call and what it returned
CallOutcome(op, k, value, val, err) == [op |-> op, k |-> k, v |-> value, val |-> val, err |-> err]

RunInit ==
  /\ ctxs' = InitCtx(ReqCtx).ctxs
  /\ caches' = InitCtx(ReqCtx).caches
  /\ freeCache' = FreeInit(freeCache)
  /\ ret' = [ret EXCEPT ![1] = [op |-> "Init"]]
  /\ freeRet' = [op |-> "Init"]
  /\ UNCHANGED <<pc, call>>
  /\ UNCHANGED <<streamVars, pureVars>>

RunSet(k, value) ==
  /\ caches' = DeclareThenSet(ReqCtx, k, value).caches
  /\ freeCache' = FreeSet(freeCache, k.T, k.Key, value).cache
  /\ ret' = [ret EXCEPT ![1] = CallOutcome("Set", k, value, Zero(k.T),
                                           DeclareThenSet(ReqCtx, k, value).err)]
  /\ freeRet' = CallOutcome("Set", k, value, Zero(k.T), FreeSet(freeCache, k.T, k.Key, value).err)
  /\ UNCHANGED <<ctxs, pc, call>>
  /\ UNCHANGED <<streamVars, pureVars>>

RunGet(k) ==
  /\ ret' = [ret EXCEPT ![1] = CallOutcome("Get", k, Zero(k.T), Get(ReqCtx, k).val,
                                           Get(ReqCtx, k).err)]
  /\ freeRet' = CallOutcome("Get", k, Zero(k.T), FreeGet(freeCache, k.T, k.Key).val,
                         FreeGet(freeCache, k.T, k.Key).err)
  /\ UNCHANGED <<ctxs, caches, pc, call, freeCache>>
  /\ UNCHANGED <<streamVars, pureVars>>

\* KeepAlive exists in the version with declarations only
RunKeepAlive(k) ==
  /\ caches' = KeepAlive(ReqCtx, k)
  /\ UNCHANGED <<ctxs, pc, call, ret>>
  /\ UNCHANGED <<streamVars, pureVars, freeVars>>

\* the cancel function Init returned
RunCancel ==
  /\ getCache(ReqCtx) # 0
  /\ caches' = Cancel(getCache(ReqCtx))
  /\ freeCache' = FreeClear(freeCache)
  /\ ret' = [ret EXCEPT ![1] = [op |-> "cancel"]]
  /\ freeRet' = [op |-> "cancel"]
  /\ UNCHANGED <<ctxs, pc, call>>
  /\ UNCHANGED <<streamVars, pureVars>>

\* the keys of the calls: one name with each of the types
VariantKeys == {k \in Keys : k.Key = "x"}

NextVariants ==
  \/ RunInit
  \/ \E k \in VariantKeys, value \in Vals : RunSet(k, value)
  \/ \E k \in VariantKeys : RunGet(k)
  \/ \E k \in VariantKeys : RunKeepAlive(k)
  \/ RunCancel

SpecVariants == Init /\ [][NextVariants]_vars

\* ------------------------------------------------------------------ the states the claims speak of
\* the cache a context is bound to is in use: Init ran, the cancel function did not
Active(ctx) == getCache(ctx) # 0 /\ ~caches[getCache(ctx)].cleared

Cleared(ctx) == getCache(ctx) # 0 /\ caches[getCache(ctx)].cleared

entries(ctx) == caches[getCache(ctx)].values

Declared(ctx, k) == k \in DOMAIN entries(ctx)

IsSet(ctx, k) == Declared(ctx, k) /\ entries(ctx)[k].IsSet

RECURSIVE Chain(_, _)
\* ctx and its ancestors
Chain(cs, ctx) == IF ctx = 0 THEN {} ELSE {ctx} \cup Chain(cs, cs[ctx].parent)

\* Init was applied neither to ctx nor to an ancestor of it
Unbound(ctx) == \A a \in Chain(ctxs, ctx) : ctxs[a].cache = 0

\* two histories of one Cache that differ in KeepAlive calls only, a with the
\* calls b lacks: until teardown the same entries and fewer keys marked in b,
\* after it fewer entries retained in b
LessKept(a, b) ==
  /\ a.cleared = b.cleared
  /\ IF a.cleared
       THEN /\ DOMAIN b.values \subseteq DOMAIN a.values
            /\ b.values = Restrict(a.values, DOMAIN b.values)
            /\ b.keepAlive = a.keepAlive
       ELSE /\ b.values = a.values
            /\ b.keepAlive \subseteq a.keepAlive

\* every Cache b the history with fewer KeepAlive calls can be in, when the other is in a
Variants(a) ==
  IF a.cleared THEN {[a EXCEPT !.values = Restrict(a.values, S)] : S \in SUBSET DOMAIN a.values}
  ELSE {[a EXCEPT !.keepAlive = K] : K \in SUBSET a.keepAlive}

\* what the callers see of a Cache: its fields but the mutex
State(cache) == <<cache.values, cache.keepAlive, cache.cleared>>

TypeOK ==
  /\ \A i \in Ctxs : ctxs[i].parent \in 0..(i - 1) /\ ctxs[i].cache \in {0} \cup Caches
  /\ \A c \in Caches :
       /\ DOMAIN caches[c].values \subseteq Keys
       /\ caches[c].keepAlive \subseteq Keys
       /\ caches[c].mutex \in {0} \cup Procs

\* ------------------------------------------------------------------ claims, under Spec
\* C1 (state part): on an active cache a key whose value is set refuses every
\* further Set with ErrValueAlreadySet, leaving the cache as it is, and Get returns
\* the value stored.
C1_SetRefused ==
  \A ctx \in Ctxs, k \in Keys :
    Active(ctx) /\ IsSet(ctx, k) =>
      /\ \A w \in Vals : /\ Set(ctx, k, w).err = Errorf(k, ErrValueAlreadySet)
                         /\ Set(ctx, k, w).caches = caches
      /\ Get(ctx, k) = [val |-> entries(ctx)[k].Value, err |-> nil]

\* C1 (step part): no call changes or removes a set value before the teardown.
C1_ValueKept ==
  \A ctx \in Ctxs, k \in Keys :
    Active(ctx) /\ IsSet(ctx, k) =>
      \/ caches'[getCache(ctx)].cleared
      \/ /\ k \in DOMAIN caches'[getCache(ctx)].values
         /\ caches'[getCache(ctx)].values[k] = entries(ctx)[k]

\* C1: write-once per key: once Set(k, v) has succeeded on an active cache, every
\* later Set(k, w) returns ErrValueAlreadySet and every later Get(k) returns v,
\* whatever calls happen in between, until the teardown.
C1_WriteOnce == []C1_SetRefused /\ [][C1_ValueKept]_vars

\* C1 witness: a value 1 was set and kept alive, a Set of 0 is refused, Get returns 1.
C1_Witness ==
  \E ctx \in Ctxs, k \in Keys :
    /\ Active(ctx) /\ IsSet(ctx, k) /\ entries(ctx)[k].Value = 1
    /\ k \in caches[getCache(ctx)].keepAlive
    /\ Set(ctx, k, 0).err.kind = ErrValueAlreadySet
    /\ Get(ctx, k).val = 1

C4_FirstTeardown ==
  [][\A c \in Caches :
       ~caches[c].cleared /\ caches'[c].cleared =>
         /\ DOMAIN caches'[c].values = (DOMAIN caches[c].values) \cap caches[c].keepAlive
         /\ \A k \in DOMAIN caches'[c].values : caches'[c].values[k] = caches[c].values[k]
         /\ caches'[c].keepAlive = {}]_vars

\* C4 witness: after the teardown one set entry is left and another key, declared in
\* no step since, is gone.
C4_Witness ==
  \E c \in Caches, k \in Keys :
    /\ caches[c].cleared /\ caches[c].keepAlive = {}
    /\ DOMAIN caches[c].values = {k}
    /\ caches[c].values[k] = TypeValue(k.T, TRUE, 1)

\* C5 (as claimed): a key declared, set and kept alive before the cancel function
\* runs is still returned by Get afterwards.
C5_KeptValueReadable ==
  \A ctx \in Ctxs, k \in Keys :
    Cleared(ctx) /\ IsSet(ctx, k) => Get(ctx, k) = [val |-> entries(ctx)[k].Value, err |-> nil]

\* C8: the lifecycle only moves Unbound -> Active -> Cleared: no step unbinds a
\* context, removes a Cache or makes a cleared Cache active again.
C8_ClearedForever ==
  [][/\ \A ctx \in Ctxs : Value(ctxs', ctx) = getCache(ctx)
     /\ \A c \in Caches : c <= Len(caches') /\ (caches[c].cleared => caches'[c].cleared)]_vars

\* C8 witness: a cleared cache on which Init, Declare, Set and KeepAlive change nothing.
C8_Witness ==
  \E ctx \in Ctxs :
    /\ Cleared(ctx)
    /\ InitCtx(ctx).caches = caches
    /\ \A k \in Keys : Declare(ctx, <<k>>) = caches /\ KeepAlive(ctx, k) = caches

\* C9 (state part): on an active cache Get and Set on a key without an entry fail
\* with ErrKeyNotDeclared, Get returning the zero value and Set changing nothing.
C9_UndeclaredRefused ==
  \A ctx \in Ctxs, k \in Keys :
    Active(ctx) /\ ~Declared(ctx, k) =>
      /\ Get(ctx, k) = [val |-> Zero(k.T), err |-> Errorf(k, ErrKeyNotDeclared)]
      /\ \A v \in Vals : /\ Set(ctx, k, v).err = Errorf(k, ErrKeyNotDeclared)
                         /\ Set(ctx, k, v).caches = caches

\* C9 (step part): an entry appears only by a Declare naming its key, unset; an
\* entry that is set after a step was declared before it.
C9_DeclaredFirst ==
  \A c \in Caches, k \in Keys :
    /\ (k \notin DOMAIN caches[c].values /\ k \in DOMAIN caches'[c].values) =>
         /\ caches'[c].values[k] = TypeValue(k.T, FALSE, Zero(k.T))
         /\ \E ctx \in Ctxs, keys \in DeclareArgs :
              /\ getCache(ctx) = c /\ \E i \in DOMAIN keys : keys[i] = k
              /\ caches' = Declare(ctx, keys)
    /\ (k \in DOMAIN caches'[c].values /\ caches'[c].values[k].IsSet) =>
         k \in DOMAIN caches[c].values

\* C9: Set and Get on a key for which Declare never ran fail with ErrKeyNotDeclared,
\* and every entry with IsSet = true belongs to a key declared earlier.
C9_DeclareBeforeUse == []C9_UndeclaredRefused /\ [][C9_DeclaredFirst]_vars

\* C9 witness: an active cache with a set key and an undeclared one that Set refuses.
C9_Witness ==
  \E ctx \in Ctxs, k \in Keys, j \in Keys :
    /\ Active(ctx) /\ IsSet(ctx, k) /\ ~Declared(ctx, j)
    /\ Set(ctx, j, 1).err.kind = ErrKeyNotDeclared
    /\ Get(ctx, j).err.kind = ErrKeyNotDeclared

\* C10: on an active cache Get on a declared key without a value returns the zero
\* value and ErrValueNotSet, and Get returns a value without error exactly when the
\* key is declared and set.
C10_GetNeedsSet ==
  \A ctx \in Ctxs, k \in Keys :
    Active(ctx) =>
      /\ (Declared(ctx, k) /\ ~IsSet(ctx, k) =>
            Get(ctx, k) = [val |-> Zero(k.T), err |-> Errorf(k, ErrValueNotSet)])
      /\ (Get(ctx, k).err = nil <=> IsSet(ctx, k))
      /\ (IsSet(ctx, k) => Get(ctx, k).val = entries(ctx)[k].Value)

\* C10 witness: an active cache with a declared, unset key and a key set to the
\* zero value: Get fails on the first and succeeds on the second.
C10_Witness ==
  \E ctx \in Ctxs, k \in Keys, j \in Keys :
    /\ Active(ctx) /\ Declared(ctx, k) /\ ~IsSet(ctx, k)
    /\ Get(ctx, k).err.kind = ErrValueNotSet
    /\ IsSet(ctx, j) /\ entries(ctx)[j].Value = Zero(j.T) /\ Get(ctx, j).err = nil

\* ------------------------------------------------------------------ claims, under SpecCtx
\* C7: Init on a context that carries a Cache (bound on it or on an ancestor) returns
\* that very context, creates no context and no Cache, and returns the cancel function
\* of the Cache the context carries; every context of the chain reads the same
\* values, and after any of these cancel functions Get fails through all of them.
C7_InitIdempotent ==
  \A ctx \in Ctxs :
    getCache(ctx) # 0 =>
      /\ InitCtx(ctx).ctx = ctx
      /\ InitCtx(ctx).ctxs = ctxs
      /\ InitCtx(ctx).caches = caches
      /\ InitCtx(ctx).cancel = getCache(ctx)
      /\ \A other \in Ctxs, k \in Keys :
           getCache(other) = getCache(ctx) =>
             /\ Get(other, k) = Get(ctx, k)
             /\ GetLocked(Cancel(InitCtx(ctx).cancel)[getCache(other)], k).err
                  = Errorf(k, ErrCacheAlreadyCleared)

\* C7 witness: Init on the root, a context derived from its result and a value set
\* through the derived context; Init on the derived context returns it, and the value
\* is read through the context Init returned first.
C7_Witness ==
  /\ Len(ctxs) = 3 /\ ctxs[2] = [parent |-> 1, cache |-> 1] /\ ctxs[3] = [parent |-> 2, cache |-> 0]
  /\ InitCtx(3).ctx = 3 /\ InitCtx(3).cancel = 1 /\ Len(caches) = 1
  /\ \E k \in CtxKeys : Get(2, k) = [val |-> 1, err |-> nil] /\ Get(3, k) = Get(2, k)

\* ------------------------------------------------------------------ claims, under SpecSet
\* the key the goroutines race on
RaceKey == CHOOSE k \in Keys : k \in DOMAIN caches[1].values

Returned == {g \in Procs : pc[g] = "done"}

Succeeded == {g \in Returned : ret[g].err = nil}

\* C2: of the goroutines calling Set concurrently on one declared, unset key of an
\* active cache, exactly one returns nil, every other returns ErrValueAlreadySet,
\* and the value stored is the one the successful call passed.
C2_OneSetWins ==
  /\ Cardinality(Succeeded) <= 1
  /\ Returned # {} => Cardinality(Succeeded) = 1
  /\ \A g \in Returned \ Succeeded : ret[g].err = Errorf(RaceKey, ErrValueAlreadySet)
  /\ \A g \in Succeeded :
       caches[1].values[RaceKey] = TypeValue(RaceKey.T, TRUE, call[g].value)
  /\ Succeeded = {} => ~caches[1].values[RaceKey].IsSet

\* C2 witness: all goroutines have returned, they passed different values, and the
\* second goroutine is the one that succeeded.
C2_Witness ==
  /\ Returned = Procs
  /\ call[1].value # call[2].value
  /\ Succeeded = {2}
  /\ ret[1].err.kind = ErrValueAlreadySet

\* ------------------------------------------------------------------ claims, under SpecClear
\* C6 (state part): at most one invocation is past the cleared check, and it found
\* the cache not cleared.
C6_OnePurger ==
  /\ Cardinality({g \in Procs : pc[g] = "purge"}) <= 1
  /\ \A g \in Procs : pc[g] = "purge" => ~caches[call[g].cache].cleared

\* C6 (step part): a step that changes entries, keepAlive or cleared is the purge of
\* a cache that was not cleared; on a cleared cache every invocation leaves them alone.
C6_OnlyFirstChanges ==
  \A c \in Caches :
    State(caches'[c]) # State(caches[c]) =>
      /\ ~caches[c].cleared
      /\ caches'[c].cleared
      /\ \E g \in Procs : pc[g] = "purge" /\ pc'[g] = "done" /\ call[g].cache = c

\* C6: the teardown purges once per cache: of all invocations of the cancel function
\* and its aliases, sequential or concurrent, only the first to take the lock changes
\* the state; every other finds cleared = true and leaves the cache as it is.
C6_TeardownOnce == []C6_OnePurger /\ [][C6_OnlyFirstChanges]_vars

\* C6 witness: both goroutines have called the cancel function, through different
\* contexts, and the cleared cache still holds the entry that was kept alive.
C6_Witness ==
  /\ \A g \in Procs : pc[g] = "done" /\ call[g].op = "cancel"
  /\ call[1].ctx # call[2].ctx /\ call[1].cache = call[2].cache
  /\ caches[1].cleared /\ caches[1].keepAlive = {}
  /\ \E k \in Keys : k \in DOMAIN caches[1].values /\ caches[1].values[k].IsSet

\* the entry a Cache holds for k, if any
EntryOf(cache, k) == IF k \in DOMAIN cache.values THEN <<cache.values[k]>> ELSE <<>>

\* C11: Declare on a key that has an entry, unset or set, leaves the entry as it was,
\* and declaring twice is declaring once: after a re-declaration Get still returns
\* the value set and Set still returns ErrValueAlreadySet.
C11_DeclareKeeps ==
  \A ctx \in Ctxs, keys \in DeclareArgs :
    getCache(ctx) # 0 =>
      LET before == caches[getCache(ctx)]
          after == Declare(ctx, keys)[getCache(ctx)]
      IN /\ \A k \in DOMAIN before.values :
              /\ EntryOf(after, k) = EntryOf(before, k)
              /\ GetLocked(after, k) = GetLocked(before, k)
              /\ \A w \in Vals : SetLocked(after, k, w).err = SetLocked(before, k, w).err
         /\ DeclareLocked(after, keys) = after

\* C11 witness: a key declared and set to 1; declaring it again changes nothing, Get
\* returns 1 and Set is refused.
C11_Witness ==
  \E ctx \in Ctxs, k \in Keys :
    /\ Active(ctx) /\ IsSet(ctx, k) /\ entries(ctx)[k].Value = 1
    /\ Declare(ctx, <<k, k>>) = caches
    /\ GetLocked(Declare(ctx, <<k>>)[getCache(ctx)], k) = [val |-> 1, err |-> nil]
    /\ SetLocked(Declare(ctx, <<k>>)[getCache(ctx)], k, 0).err.kind = ErrValueAlreadySet

\* C12: keys that differ in name or in type are different entries: Declare and Set
\* on one neither create nor change the entry of the other nor what Get returns for
\* it, and a key without a declaration of its own stays ErrKeyNotDeclared.
C12_KeyPartition ==
  \A ctx \in Ctxs :
    Active(ctx) =>
      LET c == getCache(ctx)
      IN /\ \A T2 \in Types, n2 \in Names, v \in Vals :
              LET j == Key(T2, n2)
                  after == Set(ctx, j, v).caches[c]
              IN \A T1 \in Types, n1 \in Names :
                   <<T1, n1>> # <<T2, n2>> =>
                     LET k == Key(T1, n1)
                     IN /\ k # j
                        /\ EntryOf(after, k) = EntryOf(caches[c], k)
                        /\ GetLocked(after, k) = Get(ctx, k)
                        /\ (Declared(ctx, j) /\ ~Declared(ctx, k)) =>
                             Get(ctx, k).err = Errorf(k, ErrKeyNotDeclared)
         /\ \A keys \in DeclareArgs :
              LET after == Declare(ctx, keys)[c]
              IN \A k \in Keys :
                   (\A i \in DOMAIN keys : keys[i] # k) =>
                     /\ EntryOf(after, k) = EntryOf(caches[c], k)
                     /\ GetLocked(after, k) = Get(ctx, k)

\* C12 witness: ("k", string) and ("k", int) both set, to different values, each Get
\* returning its own, while ("x", int) is declared and ("x", string) is not.
C12_Witness ==
  \E ctx \in Ctxs :
    /\ Active(ctx)
    /\ Get(ctx, Key("string", "k")) = [val |-> 1, err |-> nil]
    /\ Get(ctx, Key("int", "k")) = [val |-> 0, err |-> nil]
    /\ Get(ctx, Key("int", "x")).err.kind = ErrValueNotSet
    /\ Get(ctx, Key("string", "x")).err.kind = ErrKeyNotDeclared

\* ------------------------------------------------------------------ claims under SpecKeys
\* C13: goroutines that call Set on pairwise distinct declared keys all succeed, in
\* every interleaving, no store is lost, and a Get issued after the Set on its key
\* returned gives exactly the value set for that key.
C13_DistinctKeys ==
  \A g \in Procs :
    /\ (call[g].op = "Set" /\ pc[g] = "done") => ret[g] = [err |-> nil]
    /\ SetReturned(KeyOf(g)) =>
         EntryOf(caches[1], KeyOf(g)) = <<TypeValue(KeyOf(g).T, TRUE, ValueOf(g))>>
    /\ (call[g].op = "Get" /\ pc[g] = "done") =>
         \E h \in Procs : /\ call[g].key = KeyOf(h)
                          /\ ret[g] = [val |-> ValueOf(h), err |-> nil]

\* C13 witness: every goroutine has set its key and has read the key of the next one
C13_Witness ==
  \A g \in Procs :
    /\ call[g].op = "Get" /\ pc[g] = "done"
    /\ call[g].key = KeyOf((g % NumProcs) + 1)
    /\ ret[g] = [val |-> ValueOf((g % NumProcs) + 1), err |-> nil]

\* ------------------------------------------------------------------ more claims under Spec
\* C14: on a context without a Cache and on a cleared Cache, Declare and KeepAlive
\* change nothing and report nothing, and Set and Get afterwards still fail with
\* ErrCacheNotInitialized, respectively ErrCacheAlreadyCleared.
C14_SilentNoOps ==
  \A ctx \in Ctxs :
    (Unbound(ctx) \/ Cleared(ctx)) =>
      LET kind == IF Unbound(ctx) THEN ErrCacheNotInitialized ELSE ErrCacheAlreadyCleared
      IN /\ \A keys \in DeclareArgs : Declare(ctx, keys) = caches
         /\ \A k \in Keys :
              /\ KeepAlive(ctx, k) = caches
              /\ Get(ctx, k) = [val |-> Zero(k.T), err |-> Errorf(k, kind)]
              /\ \A v \in Vals : Set(ctx, k, v) = [caches |-> caches, err |-> Errorf(k, kind)]

\* C14 witness: a cleared Cache that kept one entry and lost another, next to the
\* root, which has no Cache: Declare and KeepAlive of the lost key change neither.
C14_Witness ==
  \E ctx \in Ctxs, k \in Keys, j \in Keys :
    /\ Cleared(ctx) /\ Unbound(1)
    /\ Declared(ctx, k) /\ ~Declared(ctx, j)
    /\ Declare(ctx, <<j>>) = caches /\ KeepAlive(ctx, j) = caches
    /\ Declare(1, <<j>>) = caches /\ KeepAlive(1, j) = caches
    /\ Get(ctx, j).err.kind = ErrCacheAlreadyCleared
    /\ Get(1, j).err.kind = ErrCacheNotInitialized

\* C16: Get, and every Set that returns an error, leave every Cache as it was: its
\* entries, its keepAlive set and its cleared flag. A Set that returns nil changes
\* one thing, the entry of its own key, from unset to set with the value given.
C16_SetFrame ==
  \A ctx \in Ctxs, k \in Keys, v \in Vals :
    LET r == Set(ctx, k, v)
    IN IF r.err # nil
         THEN r.caches = caches
         ELSE /\ Active(ctx)
              /\ EntryOf(caches[getCache(ctx)], k) = <<TypeValue(k.T, FALSE, Zero(k.T))>>
              /\ r.caches = [caches EXCEPT ![getCache(ctx)].values =
                                [j \in DOMAIN @ |-> IF j = k THEN TypeValue(k.T, TRUE, v) ELSE @[j]]]

\* the entries of a Cache in use change by a Declare or by a Set that returned nil,
\* and by nothing else: no Get and no Set that returned an error moves them
C16_StepFrame ==
  \A c \in Caches :
    (c \in DOMAIN caches' /\ caches'[c].values # caches[c].values /\ ~caches'[c].cleared) =>
      \/ \E keys \in DeclareArgs : caches'[c] = DeclareLocked(caches[c], keys)
      \/ \E k \in Keys, v \in Vals :
           /\ SetLocked(caches[c], k, v).err = nil
           /\ caches'[c] = SetLocked(caches[c], k, v).cache

C16_Frame == []C16_SetFrame /\ [][C16_StepFrame]_vars

\* C16 witness: a Cache in which one key is set, one is declared and kept alive,
\* one is undeclared: Set fails on the first and the third, succeeds on the second
C16_Witness ==
  \E ctx \in Ctxs, k \in Keys, j \in Keys, u \in Keys :
    /\ Active(ctx) /\ IsSet(ctx, k) /\ Declared(ctx, j) /\ ~IsSet(ctx, j) /\ ~Declared(ctx, u)
    /\ j \in caches[getCache(ctx)].keepAlive
    /\ Set(ctx, k, 1) = [caches |-> caches, err |-> Errorf(k, ErrValueAlreadySet)]
    /\ Set(ctx, u, 1) = [caches |-> caches, err |-> Errorf(u, ErrKeyNotDeclared)]
    /\ Set(ctx, j, 1).err = nil /\ Set(ctx, j, 1).caches # caches

C18_KeepAliveAnyKey ==
  \A ctx \in Ctxs :
    Active(ctx) =>
      LET c == getCache(ctx)
      IN \A k \in Keys :
           /\ KeepAlive(ctx, k) = [caches EXCEPT ![c].keepAlive = @ \cup {k}]
           /\ \A keys \in {<<>>, <<k>>}, v \in Vals :
                LET declared == DeclareLocked(KeepAliveLocked(caches[c], k), keys)
                    set == SetLocked(declared, k, v).cache
                IN /\ EntryOf(Clear(declared), k) = EntryOf(declared, k)
                   /\ EntryOf(Clear(set), k) = EntryOf(set, k)

\* C18 witness: after teardown, an entry retained unset next to one retained set
C18_Witness ==
  \E ctx \in Ctxs, k \in Keys, j \in Keys :
    /\ Cleared(ctx)
    /\ Declared(ctx, k) /\ ~IsSet(ctx, k)
    /\ IsSet(ctx, j)

C15_NoCacheNoAccess ==
  \A ctx \in Ctxs :
    Unbound(ctx) =>
      \A k \in Keys :
        /\ Get(ctx, k) = [val |-> Zero(k.T), err |-> Errorf(k, ErrCacheNotInitialized)]
        /\ \A v \in Vals :
             Set(ctx, k, v) = [caches |-> caches, err |-> Errorf(k, ErrCacheNotInitialized)]
        /\ Declare(ctx, <<k>>) = caches

\* C15 witness: a derived context without a Cache, while a sibling chain holds a
\* Cache in which the key is set
C15_Witness ==
  \E ctx \in Ctxs, other \in Ctxs, k \in Keys :
    /\ ctx # 1 /\ Unbound(ctx)
    /\ Get(other, k) = [val |-> 1, err |-> nil]
    /\ Get(ctx, k).err = Errorf(k, ErrCacheNotInitialized)
    /\ Set(ctx, k, 1).err = Errorf(k, ErrCacheNotInitialized)

\* ------------------------------------------------------------------ further claims under SpecCtx
\* Init on a context without a Cache makes a Cache no context is bound to yet, leaves
\* the caches there are and the context it was called on as they were, and binds
\* the context it returns to the new Cache
C30_InitMakesNew ==
  \A ctx \in Ctxs :
    getCache(ctx) = 0 =>
      LET r == InitCtx(ctx)
      IN /\ r.cancel \notin Caches /\ r.ctx \notin Ctxs
         /\ r.caches = Append(caches, NewCache)
         /\ Value(r.ctxs, r.ctx) = r.cancel
         /\ \A other \in Ctxs : Value(r.ctxs, other) = getCache(other)

\* a call through one context leaves the Cache of a context bound to another Cache
\* as it is: a key declared or set through the first has no entry in the second,
\* and the cancel function of the first leaves the second active
C30_OtherUntouched ==
  \A a \in Ctxs, b \in Ctxs :
    (getCache(a) # 0 /\ getCache(b) # 0 /\ getCache(a) # getCache(b)) =>
      LET cb == getCache(b)
      IN /\ Cancel(getCache(a))[cb] = caches[cb]
         /\ \A k \in CtxKeys :
              /\ Declare(a, <<k>>)[cb] = caches[cb]
              /\ KeepAlive(a, k)[cb] = caches[cb]
              /\ \A v \in Vals : Set(a, k, v).caches[cb] = caches[cb]
              /\ (Active(b) /\ ~Declared(b, k)) =>
                   /\ GetLocked(Declare(a, <<k>>)[cb], k).err = Errorf(k, ErrKeyNotDeclared)
                   /\ \A v \in Vals :
                        GetLocked(Set(a, k, v).caches[cb], k).err = Errorf(k, ErrKeyNotDeclared)

\* C30: every Init call on a context that carries no Cache makes a Cache of its own,
\* two calls on one parent too: no two contexts made by Init are bound to one
\* Cache, a key declared or set through one is KeyNotDeclared through the other,
\* and the cancel function of one leaves the other Cache active, its entries as
\* they were.
C30_IndependentCaches ==
  /\ \A a \in Ctxs, b \in Ctxs :
       (a # b /\ ctxs[a].cache # 0 /\ ctxs[b].cache # 0) => ctxs[a].cache # ctxs[b].cache
  /\ C30_InitMakesNew
  /\ C30_OtherUntouched

\* C30 witness: Init was called twice on the root; the Cache of the first call is
\* cleared, the Cache of the second is active and holds the value set through it,
\* and the key has no entry in the first
C30_Witness ==
  /\ Len(ctxs) = 3 /\ ctxs[2] = [parent |-> 1, cache |-> 1] /\ ctxs[3] = [parent |-> 1, cache |-> 2]
  /\ Cleared(2) /\ Active(3)
  /\ \E k \in CtxKeys : Get(3, k) = [val |-> 1, err |-> nil] /\ ~Declared(2, k)

\* ------------------------------------------------------------------ claims under SpecStream
\* C20: however many times and from however many goroutines Close is called, next
\* to the reader and to Next, close is called on done once at most and on msgs once
\* at most, so no close meets a closed channel; and once the call that made the
\* swap has returned, both channels are closed.
C20_CloseOnce ==
  /\ stream.done <= 1
  /\ stream.msgs <= 1
  /\ panic # "close of closed channel"
  /\ (stream.closed /\ \A g \in Procs : pc[g] \notin {"closeDone", "closeMsgs"}) =>
       (stream.done = 1 /\ stream.msgs = 1)

\* C20 witness: every goroutine has called Close and returned, and each channel was
\* closed once
C20_Witness ==
  /\ \A g \in Procs : pc[g] = "done"
  /\ stream.closed /\ stream.done = 1 /\ stream.msgs = 1
  /\ panic = "none"

\* C21 (as claimed): with Close called while the reader is in send or about to
\* enter it, send returns false once the stream is closed and no send on the closed
\* msgs channel, a panic, ever happens.
C21_NoSendOnClosed == panic # "send on closed channel"

\* a Close call has returned
CloseReturned == \E g \in Procs : pc[g] = "done"

\* the step in which a waiting Next returns
NextReturns == consumer.pc = "select" /\ consumer'.pc = "idle"

\* a waiting Next returns true exactly when the step hands it a message of the
\* reader that carries a line and no error
C22_TrueIffData ==
  NextReturns =>
    (consumer'.ok <=> /\ InSelect /\ reader'.pc \in {"scan", "exit"}
                      /\ reader.msg.err = "nil" /\ reader.msg.data # ""
                      /\ stream'.curr = reader.msg)

\* a Next called on a closed stream, so one called after a Close call returned,
\* returns false at once; no Next returns true once msgs is closed
C22_FalseOnceClosed ==
  /\ (consumer.pc = "idle" /\ consumer' # consumer /\ (stream.closed \/ CloseReturned)) =>
       (consumer'.pc = "idle" /\ ~consumer'.ok)
  /\ (NextReturns /\ Closed(stream.msgs)) => ~consumer'.ok

\* while Next's last return is true, the current message is a line without an error
C22_TrueHoldsData == consumer.ok => (stream.curr.err = "nil" /\ stream.curr.data # "")

\* C22: Next returns true exactly when it received a data message; it returns
\* false on a stream already closed, on msgs closed while it waits, on the context
\* done or the timeout over, and on a message with an error or the end marker. No
\* Next called after a Close call returned returns true, and none returns true
\* once the Close call that closes the channels has closed msgs.
C22_NextResult == []C22_TrueHoldsData /\ [][C22_TrueIffData /\ C22_FalseOnceClosed]_vars

\* C22 (as claimed): after a Close call has returned, no Next call returns true
C22_NoTrueAfterClose == [][CloseReturned => ~(NextReturns /\ consumer'.ok)]_vars

\* C22 witness: one Close call has returned, having lost the swap, the call that won
\* it has closed done and not yet msgs, and Next has returned true with the line "b"
C22_Witness ==
  /\ \E g \in Procs, h \in Procs : pc[g] = "done" /\ pc[h] = "closeMsgs"
  /\ consumer.pc = "idle" /\ consumer.ok
  /\ stream.curr = Message("b", "nil")

RECURSIVE Lines(_)
\* the non-empty, whitespace-trimmed lines of a body, in order
Lines(body) ==
  IF body = <<>> THEN <<>>
  ELSE LET text == TrimSpace(Head(body))
       IN (IF text = "" THEN <<>> ELSE <<text>>) \o Lines(Tail(body))

IsPrefix(s, t) == Len(s) <= Len(t) /\ SubSeq(t, 1, Len(s)) = s

\* the line the reader holds in send, not yet taken by a Next
Pending ==
  IF reader.pc \in {"load", "select", "parked"} /\ reader.msg.err = "nil"
    THEN <<reader.msg.data>>
    ELSE <<>>

\* while Close is not called: the texts read, then the line held in send, are the
\* first lines of the body; with the lines not yet scanned they are all its lines,
\* until the scanner fails; once the scanner reached the end of the body every
\* line has been read; and after a Next that returned true, Text() is the last of them
C27_Lossless ==
  ~stream.closed =>
    /\ IsPrefix(consumer.texts \o Pending, Lines(reader.all))
    /\ ~reader.last => consumer.texts \o Pending \o Lines(reader.body) = Lines(reader.all)
    /\ (reader.last /\ reader.msg.err = EOF) => consumer.texts = Lines(reader.all)
    /\ consumer.ok => /\ consumer.texts # <<>>
                      /\ stream.curr.data = consumer.texts[Len(consumer.texts)]

\* a Next that returns at a done context or a timeout takes nothing from the reader
C27_TimeoutKeeps ==
  (NextReturns /\ stream'.curr.err \in CtxErrs) =>
    (reader' = reader /\ consumer'.texts = consumer.texts /\ ~consumer'.ok)

NextReturnsFalse == NextReturns /\ ~consumer'.ok

\* the returning Next took the message of the reader
TookMessage == InSelect /\ reader'.pc \in {"scan", "exit"}

BlockedAtClose == stream.closed /\ reader.pc = "parked" /\ consumer.pc = "idle"

\* a reader blocked in send at Close stays blocked or returns, and hands nothing
\* over; the reader returns when its last message, the end or an error, was taken;
\* a reader that returned does nothing more
C32_StepEnds ==
  /\ BlockedAtClose =>
       /\ reader'.pc \in {"parked", "exit"}
       /\ consumer'.texts = consumer.texts /\ stream'.curr = stream.curr
       /\ panic' = "none"
  /\ (TookMessage /\ reader.msg.err # "nil") => reader'.pc = "exit"
  /\ reader.pc = "exit" => reader' = reader

\* C32: a reader blocked in send, with no Next waiting, when Close is called is
\* released, send returns false and the goroutine returns (its deferred
\* resp.Body.Close() runs) without handing over another message; and the reader
\* returns after it handed over the end-of-stream or error message.
C32_ReaderEnds ==
  /\ [][C32_StepEnds]_vars
  /\ BlockedAtClose ~> (reader.pc = "exit")

\* C32 witness: the reader blocks in send with the line "a", nobody calls Next, and
\* Close has closed done: the reader is released, a line of the body still unread
C32_Witness ==
  /\ BlockedAtClose /\ Closed(stream.done)
  /\ Pending = <<"a">> /\ reader.body # <<>> /\ consumer.texts = <<>>

\* ------------------------------------------------------------------ claims under SpecErr
\* C23: with err not nil, Explain(err, msg) and Stack(err, msg) return an error whose
\* message is msg, then ": " (Explain) or " >> " (Stack), then the message of err,
\* whose Unwrap is err and for which errors.Is holds with every error of err's
\* chain, so that nested calls read outermost first; with err nil they return an
\* error whose message is msg alone and that wraps nothing.
C23_WrapKeepsChain ==
  \A msg \in Msgs :
    LET e == Explain(wrappedErr, msg)
        s == Stack(wrappedErr, msg)
    IN IF wrappedErr = nil
         THEN /\ Error(e) = <<msg>> /\ Unwrap(e) = nil
              /\ Error(s) = <<msg>> /\ Unwrap(s) = nil
         ELSE /\ Error(e) = <<msg, ": ">> \o Error(wrappedErr)
              /\ Error(s) = <<msg, " >> ">> \o Error(wrappedErr)
              /\ Unwrap(e) = wrappedErr /\ Unwrap(s) = wrappedErr
              /\ \A target \in ErrChain(wrappedErr) : Is(e, target) /\ Is(s, target)

\* C23 witness: "level 2: level 1: base error", which unwraps to "level 1: base error"
\* and is the base error
C23_Witness ==
  /\ wrappedErr # nil /\ Unwrap(wrappedErr) # nil
  /\ Error(wrappedErr) = <<"level 2", ": ", "level 1", ": ", "base error">>
  /\ Error(Unwrap(wrappedErr)) = <<"level 1", ": ", "base error">>
  /\ Is(wrappedErr, New("base error"))

\* ------------------------------------------------------------------ claims under SpecParse
\* C24 (as claimed): for every type T its constraint admits, a defined type
\* included, and every decimal token of kind number, ParseInt returns the
\* out-of-range error when the number written lies outside the range of T, and
\* else the number itself and no error, never a truncated one; a token that is
\* not a number gives an error.
C24_NoSilentTruncation ==
  parsed.op = "ParseInt" =>
    IF parsed.k # "0" \/ StrconvParseInt(parsed.token).err # nil
      THEN parsed.err # nil
      ELSE LET v == StrconvParseInt(parsed.token).v
           IN IF v > MaxInt(Bits(parsed.T)) \/ v < MinInt(Bits(parsed.T))
                THEN parsed.err = New(errOutOfRange)
                ELSE parsed.err = nil /\ parsed.val = v

\* ------------------------------------------------------------------ further claims under Spec
\* C25: in every reachable cache the entry under a key (name, T) carries the type
\* tag T, so neither Get nor Set returns KeyTypeMismatch, for any context, key
\* and value.
C25_NoTypeMismatch ==
  /\ \A c \in Caches : \A k \in DOMAIN caches[c].values : caches[c].values[k].T = k.T
  /\ \A ctx \in Ctxs, k \in Keys :
       /\ Get(ctx, k).err.kind # ErrKeyTypeMismatch
       /\ \A v \in Vals : Set(ctx, k, v).err.kind # ErrKeyTypeMismatch

\* C25 witness: one name under two types in one cache, the string entry set and
\* the int entry declared; Get of the int key finds its own entry, unset
C25_Witness ==
  \E ctx \in Ctxs :
    /\ Active(ctx)
    /\ IsSet(ctx, Key("string", "x"))
    /\ Declared(ctx, Key("int", "x"))
    /\ Get(ctx, Key("int", "x")).err = Errorf(Key("int", "x"), ErrValueNotSet)

\* ------------------------------------------------------------------ the precedence of the errors
\* the failure conditions of Get and Set on context ctx and key k, each by itself
NoCache(ctx) == getCache(ctx) = 0

NoEntry(ctx, k) == NoCache(ctx) \/ k \notin DOMAIN entries(ctx)

WrongType(ctx, k) == ~NoEntry(ctx, k) /\ entries(ctx)[k].T # k.T

NoValue(ctx, k) == NoEntry(ctx, k) \/ ~entries(ctx)[k].IsSet

HasValue(ctx, k) == ~NoEntry(ctx, k) /\ entries(ctx)[k].IsSet

\* the conditions in the order of the precedence, with the error of each; last is
\* ValueNotSet with NoValue for Get, ValueAlreadySet with HasValue for Set
Failures(ctx, k, last) ==
  <<[holds |-> NoCache(ctx), err |-> ErrCacheNotInitialized],
    [holds |-> Cleared(ctx), err |-> ErrCacheAlreadyCleared],
    [holds |-> NoEntry(ctx, k), err |-> ErrKeyNotDeclared],
    [holds |-> WrongType(ctx, k), err |-> ErrKeyTypeMismatch],
    last>>

RECURSIVE FirstFailure(_, _)
\* the error of the first condition that holds, for key k, or nil
FirstFailure(k, conds) ==
  IF conds = <<>> THEN nil
  ELSE IF Head(conds).holds THEN Errorf(k, Head(conds).err)
  ELSE FirstFailure(k, Tail(conds))

\* C29: Get and Set return the error of the first failure condition that holds, in
\* the order CacheNotInitialized, CacheAlreadyCleared, KeyNotDeclared,
\* KeyTypeMismatch, then ValueNotSet (Get) or ValueAlreadySet (Set), and no
\* error when none holds; so on a cleared cache both return CacheAlreadyCleared,
\* Set on a key that is set and Get on a key without an entry too.
C29_ErrorPrecedence ==
  \A ctx \in Ctxs, k \in Keys :
    /\ Get(ctx, k).err =
         FirstFailure(k, Failures(ctx, k, [holds |-> NoValue(ctx, k), err |-> ErrValueNotSet]))
    /\ \A v \in Vals :
         Set(ctx, k, v).err =
           FirstFailure(k, Failures(ctx, k, [holds |-> HasValue(ctx, k), err |-> ErrValueAlreadySet]))

\* C29 witness: a cleared cache that kept the set entry of one key and has none for
\* another: Set on the first, where ValueAlreadySet holds too, and Get on the
\* second, where KeyNotDeclared holds too, return CacheAlreadyCleared
C29_Witness ==
  \E ctx \in Ctxs :
    /\ Cleared(ctx)
    /\ HasValue(ctx, Key("int", "x")) /\ NoEntry(ctx, Key("int", "k"))
    /\ Set(ctx, Key("int", "x"), 0).err = Errorf(Key("int", "x"), ErrCacheAlreadyCleared)
    /\ Get(ctx, Key("int", "k")).err = Errorf(Key("int", "k"), ErrCacheAlreadyCleared)

\* ------------------------------------------------------------------ claims under SpecOpsFair
\* goroutine g is in a call that has not returned
InCall(g) == pc[g] \in {"lock", "crit", "store", "purge"}

\* goroutine g holds the mutex of the cache
Holds(g) == \E c \in Caches : caches[c].mutex = g

\* the mutex is held by a goroutine exactly between its Lock and its return: one
\* that waits in Lock does not hold it, one that returned has released it
C26_HeldInside == \A g \in Procs : Holds(g) <=> pc[g] \in {"crit", "store", "purge"}

\* a call locks once: past its Lock it does not come to Lock again before it returns
C26_LockOnce ==
  \A g \in Procs :
    /\ pc[g] \in {"crit", "store", "purge"} => pc'[g] \in {"crit", "store", "purge", "done"}
    /\ (pc[g] = "lock" /\ pc'[g] # "lock") => (pc'[g] = "crit" /\ caches[call[g].cache].mutex = 0)

\* C26: with goroutines calling Declare, Set, Get, KeepAlive and the cancel function
\* on one cache, every call locks the mutex once, never while it holds it, and
\* has released it when it returns, on the error returns too; under fair
\* scheduling every call made returns.
C26_DeadlockFree ==
  /\ []C26_HeldInside
  /\ [][C26_LockOnce]_vars
  /\ \A g \in Procs : InCall(g) ~> (pc[g] = "done")

\* C26 witness: a goroutine waits in the Lock of its Set while another, in the purge
\* of the cancel function, holds the mutex, after a Set that returned its error
\* under the mutex and released it
C26_Witness ==
  \E g \in Procs, h \in Procs :
    /\ pc[g] = "lock" /\ call[g].op = "Set"
    /\ pc[h] = "purge" /\ caches[1].mutex = h
    /\ IsSet(2, Key("int", "x"))

\* ------------------------------------------------------------------ claims under SpecOps
\* a cleared cache has no keepAlive member
C28_NothingKeptAlive == \A c \in Caches : caches[c].cleared => caches[c].keepAlive = {}

\* the step that clears a cache leaves the entries whose keys were kept alive, as
\* they were; no step on a cleared cache changes its entries, its keepAlive or cleared
C28_StepFrozen ==
  \A c \in Caches :
    /\ (~caches[c].cleared /\ caches'[c].cleared) =>
         caches'[c].values = Restrict(caches[c].values, caches[c].keepAlive)
    /\ caches[c].cleared =>
         /\ caches'[c].cleared
         /\ caches'[c].values = caches[c].values
         /\ caches'[c].keepAlive = caches[c].keepAlive

\* C28: after the teardown keepAlive is empty and the entries are those the purge
\* retained, and no Declare, Set, Get, KeepAlive or teardown call, of any
\* goroutine in any interleaving, adds, removes or changes an entry or a
\* keepAlive member.
C28_FrozenAfterTeardown == []C28_NothingKeptAlive /\ [][C28_StepFrozen]_vars

\* C28 witness: the cache is cleared and holds the entry that was set and kept
\* alive; a Set called after the teardown has returned its error, and the last
\* call of another goroutine, a KeepAlive, has returned
C28_Witness ==
  \E g \in Procs, h \in Procs :
    /\ caches[1].cleared /\ caches[1].keepAlive = {}
    /\ DOMAIN caches[1].values = {Key("int", "x")} /\ IsSet(2, Key("int", "x"))
    /\ pc[g] = "done" /\ call[g].op = "Set"
    /\ ret[g].err = Errorf(Key("int", "x"), ErrCacheAlreadyCleared)
    /\ pc[h] = "done" /\ call[h].op = "KeepAlive"

\* ------------------------------------------------------------------ claims under SpecDecode
\* strconv.Itoa of a number that is not negative
Digit(n) ==
  CASE n = 0 -> "0" [] n = 1 -> "1" [] n = 2 -> "2" [] n = 3 -> "3" [] n = 4 -> "4"
    [] n = 5 -> "5" [] n = 6 -> "6" [] n = 7 -> "7" [] n = 8 -> "8" [] n = 9 -> "9"

RECURSIVE Itoa(_)
Itoa(n) == IF n < 10 THEN <<Digit(n)>> ELSE Itoa(n \div 10) \o <<Digit(n % 10)>>

RECURSIVE EncodeArray(_, _), EncodeElems(_, _)
\* the tokens that write a slice: null for the nil slice, else its elements in
\* order between [ and ]
EncodeArray(parseFn, v) ==
  IF v.isNil THEN <<TokNull>>
  ELSE <<TokArrayBegin>> \o EncodeElems(parseFn, v.elems) \o <<TokArrayEnd>>

EncodeElems(parseFn, s) ==
  IF Len(s) = 0 THEN <<>>
  ELSE (IF parseFn = "int" THEN <<TokNumber(Itoa(s[1]))>> ELSE EncodeArray("int", s[1]))
         \o EncodeElems(parseFn, Tail(s))

RECURSIVE IsArrayOf(_, _), IsElems(_, _)
\* the tokens s are one JSON value that is null or an array of elements parseFn takes
IsArrayOf(parseFn, s) ==
  \/ s = <<TokNull>>
  \/ /\ Len(s) >= 2
     /\ s[1] = TokArrayBegin
     /\ s[Len(s)] = TokArrayEnd
     /\ IsElems(parseFn, SubSeq(s, 2, Len(s) - 1))

IsElems(parseFn, s) ==
  \/ Len(s) = 0
  \/ \E n \in 1..Len(s) :
       /\ IF parseFn = "int"
            THEN n = 1 /\ s[1].kind = "0" /\ Atoi(s[1].text) <= MaxInt(8)
            ELSE IsArrayOf("int", SubSeq(s, 1, n))
       /\ IsElems(parseFn, SubSeq(s, n + 1, Len(s)))

\* the tokens the call took
Consumed == SubSeq(parsed.d.toks, 1, parsed.after.pos - 1)

Truncated ==
  /\ PeekKind(NewDecoder(parsed.d.toks)) = OpenKind(parsed.fn)
  /\ \A i \in DOMAIN parsed.d.toks : parsed.d.toks[i].kind # CloseKind(parsed.fn)

\* a turn of the loop takes a token, or ends the call
C34_TurnAdvances ==
  /\ parsed'.d.pos >= parsed.d.pos
  /\ (parsed.pc = "for" /\ parsed'.pc = "for") => parsed'.d.pos > parsed.d.pos

\* C34: DecodeArray and DecodeMap return on every finite input, given element
\* and key parsers that take a token or fail: each turn of the loop takes a
\* token or ends the call, so the call returns; on a truncated input, where the
\* closing token never arrives, it returns an error, that of a parser (the
\* failed read at the end of the input when no parser failed before).
C34_LoopsTerminate ==
  /\ [][C34_TurnAdvances]_vars
  /\ <>(parsed.pc = "return")
  /\ []((parsed.pc = "return" /\ Truncated) =>
          parsed.err \in {ErrUnexpectedEOF, New(errInvalidJSON)})

\* the input [1, 1 read to its end: the read of the next element failed
C34_Witness ==
  /\ parsed.op = "loop"
  /\ parsed.fn = "DecodeArray"
  /\ parsed.d.toks = <<TokArrayBegin, TokNumber(<<"1">>), TokNumber(<<"1">>)>>
  /\ parsed.d.pos = 4
  /\ parsed.pc = "return"
  /\ parsed.err = ErrUnexpectedEOF

\* ------------------------------------------------------------------ claims under SpecVariants
\* the Cache without declarations takes calls: bound and not cleared
FreeActive == freeCache.bound /\ ~freeCache.cleared

\* what the claim says of a Set[T](ctx, key, value) that this step made
C35_SetAsClaimed(k, value) ==
  /\ (FreeActive /\ k \notin DOMAIN freeCache.values) =>
       /\ freeRet'.err = nil
       /\ freeCache' = [freeCache EXCEPT !.values = Store(freeCache.values, k, value)]
  /\ (FreeActive /\ k \in DOMAIN freeCache.values) =>
       /\ freeRet'.err = Errorf(k, ErrKeyAlreadySet)
       /\ freeCache' = freeCache
  /\ freeCache.cleared =>
       /\ freeRet'.err = Errorf(k, ErrCacheAlreadyCleared)
       /\ freeCache' = freeCache

\* what the claim says of a Get[T](ctx, key) that this step made
C35_GetAsClaimed(k) ==
  /\ (FreeActive /\ k \notin DOMAIN freeCache.values) =>
       freeRet'.err = Errorf(k, ErrKeyNotSet) /\ freeRet'.val = Zero(k.T)
  /\ (FreeActive /\ k \in DOMAIN freeCache.values) =>
       freeRet'.err = nil /\ freeRet'.val = freeCache.values[k]
  /\ freeCache.cleared => freeRet'.err = Errorf(k, ErrCacheAlreadyCleared)

C35_Step ==
  /\ \A k \in VariantKeys, value \in Vals : RunSet(k, value) => C35_SetAsClaimed(k, value)
  /\ \A k \in VariantKeys : RunGet(k) => C35_GetAsClaimed(k)

\* C35: without declarations, the first Set for a (name, type) pair on an active
\* cache succeeds and stores the value, whatever is stored under the same name
\* with another type; a later Set for the pair returns ErrKeyAlreadySet and
\* changes nothing; Get for a pair never set returns ErrKeyNotSet, for a pair
\* set its value; after cancel Get and Set return ErrCacheAlreadyCleared and the
\* map, nil by then, is not written (no call panics).
C35_WriteOnceNoDeclare ==
  /\ []((freeRet.op \in {"Set", "Get"}) => freeRet.err.kind # PanicNilMap)
  /\ [](freeCache.cleared => freeCache.isNil /\ freeCache.values = <<>>)
  /\ [][C35_Step]_vars

\* a Set under a name that has a value of the other type succeeded, and both
\* values are stored
C35_Witness ==
  /\ freeRet.op = "Set"
  /\ freeRet.err = nil
  /\ freeRet.k = Key("string", "x")
  /\ Key("int", "x") \in DOMAIN freeCache.values
  /\ Key("string", "x") \in DOMAIN freeCache.values
  /\ freeCache.values[Key("int", "x")] # freeCache.values[Key("string", "x")]

\* the error mapping from the version with declarations to the one without
MapErr(err) ==
  IF err.kind \in {ErrKeyNotDeclared, ErrValueNotSet} THEN [err EXCEPT !.kind = ErrKeyNotSet]
  ELSE IF err.kind = ErrValueAlreadySet THEN [err EXCEPT !.kind = ErrKeyAlreadySet]
  ELSE err

====
